---- MODULE Spec2Model ----
(***************************************************************************)
(* rnexus: the LINKS snapshot collector, the hierarchical tree builder,    *)
(* the tree renderer and the routing-map reconciler, together with the     *)
(* part of the IRC client that drives them (!links / !summary, numerics   *)
(* 364 and 365).                                                           *)
(*                                                                         *)
(* Go strings are modelled as sequences of byte values, so that the        *)
(* byte-wise order, the search for '.', the slicing and the lower-casing   *)
(* are computed as the code computes them.                                 *)
(***************************************************************************)
EXTENDS Integers, Sequences, FiniteSets, TLC

VARIABLES
    linksTree,      \* Client.linksTree: the open snapshot, or nil
    linksTarget,    \* Client.linksTarget: who requested !links
    linksSummary,   \* Client.linksSummary: whether this is a !summary request
    routingMap,     \* Client.routingMap: the installed catalog
    motd,           \* Client.motd
    stats,          \* Client.stats, the stat log, as its number of entries
    logs,           \* Client.logs, the server notices kept, newest first
    opers,          \* Client.opers: the hostmasks cached as IRC operators
    pendingWhois,   \* Client.pendingWhois: nick -> the check waiting for its WHOIS reply
    whois,          \* SpecGate: the WHOIS requests sent whose reply has not ended (oldest first)
    invoked,        \* SpecGate: the handleCommand and logCommand calls made so far (history); SpecAdmin: the calls of the last message
    received,       \* SpecGate, SpecAdmin: number of private messages received so far (history)
    arrived,        \* SpecGate: the private messages received so far, in order (history)
    admins,         \* Client.admins: the nicks logged in as admins
    sent,           \* what the handler that ran last handed to conn.Privmsg, in call order
    pendingLinks,   \* the LINKS requests sent to the server whose reply has not ended (oldest first)
    queryNo,        \* number of cmdLinks calls so far (history)
    openQuery,      \* the cmdLinks call that opened the snapshot now in linksTree (history)
    added,          \* the Add calls made on the open snapshot, each with the query whose reply carried it (history)
    lastCall,       \* when the handler that ran last is cmdLinks: its arguments and the size of the snapshot it replaced (history)
    reports,        \* for each cmdLinks call, the number of reports made from its snapshot (history)
    lastReport,     \* when the handler that ran last made a report: its query and the queries its records came from (history)
    crashed,        \* the process died (unbounded recursion in Build)
    dataDir,        \* SpecLoad, SpecReload: the files of cfg.DataDir as the loading functions find them
    catalogs,       \* SpecReload: the *routing.Map objects allocated so far, and the one c.routingMap points at
    loader,         \* SpecReload: the reloadMap call in progress
    readers,        \* SpecReload: the handlers that read c.routingMap, each with its position
    result          \* SpecTree, SpecCompare, SpecLoad: the operation applied and what it returned

vars == <<linksTree, linksTarget, linksSummary, routingMap, motd, stats, logs, opers,
          pendingWhois, whois, invoked, received, arrived, admins, sent, pendingLinks, queryNo, openQuery,
          added, lastCall, reports, lastReport, crashed, dataDir, catalogs, loader,
          readers, result>>

-----------------------------------------------------------------------------
(* Bounds *)

MaxNames == 4       \* server names a snapshot of SpecTree is drawn over
MaxList == 2        \* longest catalog ServerList of SpecCompare
MaxAdds == 3        \* 364 records accepted per open snapshot in Spec
MaxQueries == 2     \* cmdLinks calls in a behaviour of Spec
MaxLines == 3       \* segments of an rmap.txt of SpecLoad
MaxReloads == 1     \* reloadMap calls in a behaviour of SpecReload
MaxServers == 3     \* entries of a catalog of SpecLookup
MaxHops == 3        \* largest hop count of a record of SpecRender
MaxLogs == 2        \* longest short log list SpecStore starts from
MaxAddLogs == 3     \* AddLog calls in a behaviour of SpecStore
MaxMsgs == 3        \* private messages in a behaviour of SpecGate
MaxCommands == 3    \* messages handled in a behaviour of SpecAdmin

-----------------------------------------------------------------------------
(* Strings as byte sequences *)

\* the literal "." of strings.Index(server, ".")
DOT == 46

\* "B", "a", "a.b", "c", ".a"
NameList == << <<66>>, <<97>>, <<97, 46, 98>>, <<99>>, <<46, 97>> >>

Names == {NameList[i] : i \in 1..MaxNames}

\* hop counts: the tree builder and the reconciler only test Hops == 0
RootOrNot == {0, 1}

Descriptions == {"Hub"}

\* strings.Index(s, "."): 0-based index of the first '.', or -1
IndexDot(s) ==
    IF \E i \in 1..Len(s) : s[i] = DOT
    THEN (CHOOSE i \in 1..Len(s) : s[i] = DOT /\ \A j \in 1..(i-1) : s[j] # DOT) - 1
    ELSE -1

\* strings.ToLower on ASCII
ToLower(s) == [i \in 1..Len(s) |-> IF s[i] \in 65..90 THEN s[i] + 32 ELSE s[i]]

\* Go's s < t on strings: byte-wise lexicographic order
StringLess(s, t) ==
    \E i \in 1..(Len(t)) :
        /\ \A j \in 1..(i-1) : j <= Len(s) /\ s[j] = t[j]
        /\ \/ i = Len(s) + 1
           \/ i <= Len(s) /\ s[i] < t[i]

\* the short name: "if idx := strings.Index(server, "."); idx > 0 { short = server[:idx] }"
ShortNameAnyDot(server) ==
    LET idx == IndexDot(server) IN
    IF idx >= 0 THEN SubSeq(server, 1, idx) ELSE server

ShortNameLowered(server) ==
    LET idx == IndexDot(server) IN
    ToLower(IF idx > 0 THEN SubSeq(server, 1, idx) ELSE server)

ShortName(server) ==
    LET idx == IndexDot(server) IN
    IF idx > 0 THEN SubSeq(server, 1, idx) ELSE server

-----------------------------------------------------------------------------
(* LinkEntry, LinkTree *)

LinkEntry(server, hub, hops, description) ==
    [Server |-> server, Hub |-> hub, Hops |-> hops, Description |-> description]

\* a nil *LinkTree
NilTree == [nil |-> TRUE, entries |-> <<>>, order |-> <<>>]

NewLinkTreeReused ==
    IF linksTree.nil THEN [nil |-> FALSE, entries |-> <<>>, order |-> <<>>] ELSE linksTree

\* NewLinkTree
NewLinkTree == [nil |-> FALSE, entries |-> <<>>, order |-> <<>>]

Keys(t) == DOMAIN t.entries

AddKeepsOld(t, server, hub, hops, description) ==
    [nil |-> FALSE,
     entries |-> [s \in Keys(t) \cup {server} |->
                    IF s \in Keys(t) THEN t.entries[s]
                    ELSE LinkEntry(server, hub, hops, description)],
     order |-> Append(t.order, server)]

\* LinkTree.Add
Add(t, server, hub, hops, description) ==
    [nil |-> FALSE,
     entries |-> [s \in Keys(t) \cup {server} |->
                    IF s = server THEN LinkEntry(server, hub, hops, description)
                    ELSE t.entries[s]],
     order |-> Append(t.order, server)]

\* the orders in which a Go "for ... range" may visit the keys of a map
RangeOrders(S) ==
    {p \in [1..Cardinality(S) -> S] : \A i, j \in DOMAIN p : i # j => p[i] # p[j]}

GetLinkedServersTrunc(t, iter) == [i \in DOMAIN iter |-> ShortNameAnyDot(iter[i])]

GetLinkedServersAttached(t, iter) ==
    LET attached == SelectSeq(iter, LAMBDA s : t.entries[s].Hub \in Keys(t)) IN
    [i \in DOMAIN attached |-> ShortName(attached[i])]

\* LinkTree.GetLinkedServers, the map being ranged over in the order iter
GetLinkedServers(t, iter) == [i \in DOMAIN iter |-> ShortName(iter[i])]

-----------------------------------------------------------------------------
(* Hierarchical tree builder *)

RECURSIVE SortDescending(_)
SortDescending(S) ==
    IF S = {} THEN <<>>
    ELSE LET m == CHOOSE x \in S : \A y \in S \ {x} : StringLess(y, x)
         IN  <<m>> \o SortDescending(S \ {m})

RECURSIVE SortByServer(_)
\* a set of names as the ascending sequence sort.Slice leaves (Server < Server)
SortByServer(S) ==
    IF S = {} THEN <<>>
    ELSE LET m == CHOOSE x \in S : \A y \in S \ {x} : StringLess(x, y)
         IN  <<m>> \o SortByServer(S \ {m})

ChildrenWithSelf(t, parent) ==
    SortByServer({s \in Keys(t) : t.entries[s].Hub = parent})

ChildrenAsAdded(t, parent) ==
    SelectSeq(t.order, LAMBDA s : t.entries[s].Hub = parent /\ s # parent)

\* sortChildren, first half: the children of parent, sorted alphabetically
SortedChildren(t, parent) ==
    SortByServer({s \in Keys(t) : t.entries[s].Hub = parent /\ s # parent})

RECURSIVE SortChildren(_, _, _), SortEach(_, _, _)
\* sortChildren: what the call appends to *result.  fuel is the recursion
\* depth still allowed; a snapshot of n records whose walk is finite never
\* nests deeper than n calls, so running out of fuel is the unbounded
\* recursion of a hub cycle through the root.
SortChildren(t, parent, fuel) ==
    IF fuel = 0 THEN [diverges |-> TRUE, seq |-> <<>>]
    ELSE SortEach(t, SortedChildren(t, parent), fuel)

SortEachSiblingsFirst(t, children, fuel) ==
    IF children = <<>> THEN [diverges |-> FALSE, seq |-> <<>>]
    ELSE LET child == Head(children)
             sub == SortChildren(t, child, fuel - 1)
             rest == SortEach(t, Tail(children), fuel)
         IN  IF sub.diverges THEN sub
             ELSE [diverges |-> rest.diverges,
                   seq |-> <<child>> \o rest.seq \o sub.seq]

\* sortChildren, the loop "for _, child := range children"
SortEach(t, children, fuel) ==
    IF children = <<>> THEN [diverges |-> FALSE, seq |-> <<>>]
    ELSE LET child == Head(children)
             sub == SortChildren(t, child, fuel - 1)
             rest == SortEach(t, Tail(children), fuel)
         IN  IF sub.diverges THEN sub
             ELSE [diverges |-> rest.diverges,
                   seq |-> <<child>> \o sub.seq \o rest.seq]

\* sortHierarchically
SortHierarchically(t, root) ==
    LET sub == SortChildren(t, root, Cardinality(Keys(t)) + 1)
    IN  [diverges |-> sub.diverges, seq |-> <<root>> \o sub.seq]

-----------------------------------------------------------------------------
(* Tree renderer *)

HasMoreAtLevelAnywhere(t, level, remaining) ==
    \E s \in Keys(t) : t.entries[s].Hops = level

\* hasMoreAtLevel
HasMoreAtLevel(t, level, remaining) ==
    \E i \in DOMAIN remaining :
        remaining[i] \in Keys(t) /\ t.entries[remaining[i]].Hops = level

\* formatLine: the line as its parts; text is the fixed text of a line that
\* shows no entry
FormatLine(t, entry, remaining) ==
    IF entry.Hops = 0
    THEN [text |-> "", prefix |-> <<>>, branch |-> "",
          Server |-> entry.Server, Hops |-> entry.Hops,
          Description |-> entry.Description]
    ELSE [text |-> "",
          prefix |-> [level \in 1..(entry.Hops - 1) |->
                        IF HasMoreAtLevel(t, level + 1, remaining)
                        THEN "   |" ELSE "    "],
          branch |-> "|_ ",
          Server |-> entry.Server, Hops |-> entry.Hops,
          Description |-> entry.Description]

\* the line "Error: no root server found"
NoRootLine ==
    [text |-> "Error: no root server found", prefix |-> <<>>, branch |-> "",
     Server |-> <<>>, Hops |-> 0, Description |-> ""]

\* Build, lines 62-69: "for server, entry := range t.entries" stops at the
\* first record with Hops == 0 it visits, and the order of a range over a map
\* is not fixed: root is any such record, or "" when there is none
RootChoices(t) ==
    IF \E s \in Keys(t) : t.entries[s].Hops = 0
    THEN {s \in Keys(t) : t.entries[s].Hops = 0}
    ELSE {<<>>}

BuildNoRootFails(t, root) ==
    IF Cardinality(Keys(t)) = 0 THEN [crash |-> FALSE, lines |-> <<>>]
    ELSE IF root = <<>> THEN [crash |-> TRUE, lines |-> <<>>]
         ELSE LET ordered == SortHierarchically(t, root) IN
              IF ordered.diverges THEN [crash |-> TRUE, lines |-> <<>>]
              ELSE [crash |-> FALSE,
                    lines |-> [i \in DOMAIN ordered.seq |->
                                 FormatLine(t, t.entries[ordered.seq[i]],
                                            SubSeq(ordered.seq, i + 1, Len(ordered.seq)))]]

\* LinkTree.Build, root being the record the range found.  crash: the
\* recursion never returns and the Go runtime ends the process.
Build(t, root) ==
    IF Cardinality(Keys(t)) = 0 THEN [crash |-> FALSE, lines |-> <<>>]
    ELSE IF root = <<>> THEN [crash |-> FALSE, lines |-> <<NoRootLine>>]
         ELSE LET ordered == SortHierarchically(t, root) IN
              IF ordered.diverges THEN [crash |-> TRUE, lines |-> <<>>]
              ELSE [crash |-> FALSE,
                    lines |-> [i \in DOMAIN ordered.seq |->
                                 FormatLine(t, t.entries[ordered.seq[i]],
                                            SubSeq(ordered.seq, i + 1, Len(ordered.seq)))]]

-----------------------------------------------------------------------------
(* Routing map and reconciler *)

\* routing.Map
Map(raw, servers, serverList) ==
    [Raw |-> raw, Servers |-> servers, ServerList |-> serverList]

CompareToMapCaseSensitive(tree, rmap, iter) ==
    LET linked == GetLinkedServers(tree, iter)
        linkedSet == {linked[i] : i \in DOMAIN linked}
        absent == SelectSeq(rmap.ServerList,
                            LAMBDA server : ShortName(server) \notin linkedSet)
    IN  [total |-> Len(rmap.ServerList),
         linked |-> Len(linked),
         missing |-> [i \in DOMAIN absent |-> ShortName(absent[i])]]

CompareToMapCountsDistinct(tree, rmap, iter) ==
    LET linked == GetLinkedServers(tree, iter)
        linkedSet == {ToLower(linked[i]) : i \in DOMAIN linked}
        absent == SelectSeq(rmap.ServerList,
                            LAMBDA server : ToLower(ShortName(server)) \notin linkedSet)
    IN  [total |-> Len(rmap.ServerList),
         linked |-> Cardinality(linkedSet),
         missing |-> [i \in DOMAIN absent |-> ShortName(absent[i])]]

\* CompareToMap, the map of the tree being ranged over in the order iter
CompareToMap(tree, rmap, iter) ==
    LET linked == GetLinkedServers(tree, iter)
        linkedSet == {ToLower(linked[i]) : i \in DOMAIN linked}
        absent == SelectSeq(rmap.ServerList,
                            LAMBDA server : ToLower(ShortName(server)) \notin linkedSet)
    IN  [total |-> Len(rmap.ServerList),
         linked |-> Len(linked),
         missing |-> [i \in DOMAIN absent |-> ShortName(absent[i])]]

-----------------------------------------------------------------------------
(* The IRC client: !links / !summary, numerics 364 and 365 *)

\* const maxEntries
maxEntries == 500

\* storage.AddStat, on the length of the list
AddStat(n) == LET appended == n + 1 IN IF appended > maxEntries THEN appended - 1 ELSE appended

Nicks == {"alice", "bob"}

\* "B", "a"
SessNames == {NameList[1], NameList[2]}

\* the catalog LoadMap returns for a missing rmap.txt
EmptyMap == Map(<<>>, <<>>, <<>>)

\* a catalog whose ordered server list is list (every server without uplinks)
CatalogOf(list) ==
    Map(<<>>, [s \in {list[i] : i \in DOMAIN list} |-> <<>>], list)

\* the catalogs rmap.txt holds at one time or another: "a" / "B", "c"
SessCatalogs == {CatalogOf(<<NameList[2]>>), CatalogOf(<<NameList[1], NameList[4]>>)}

\* what routing.LoadMap may return: an error, or the catalog of the file
LoadOutcomes ==
    {[err |-> TRUE, map |-> EmptyMap]} \cup {[err |-> FALSE, map |-> m] : m \in SessCatalogs}

\* one c.conn.Privmsg(to, ...) call
Msg(to, kind, line, count, names) ==
    [to |-> to, kind |-> kind, line |-> line, count |-> count, names |-> names]

NoLine == FormatLine(NewLinkTree, LinkEntry(<<>>, <<>>, 0, ""), <<>>)

NoReport == [query |-> 0, origins |-> {}]

\* a file of the data directory: missing, denied (it cannot be opened),
\* failing (reading fails after data was read) or ok
File(state, data) == [state |-> state, data |-> data]

FileNames == {"rmap.txt", "logs.txt", "stats.txt", "motd.txt"}

\* an empty data directory
NoFiles == [name \in FileNames |-> File("missing", <<>>)]

\* storage.MOTD
MOTD(setter, message) == [Setter |-> setter, Message |-> message]

NoCatalogs == [heap |-> <<>>, installed |-> 0]

NoLoad == [pc |-> "idle"]

NoReaders == <<>>

NoResult ==
    [op |-> "none", root |-> <<>>, crash |-> FALSE, lines |-> <<>>, names |-> <<>>,
     total |-> 0, linked |-> 0, missing |-> <<>>,
     map |-> EmptyMap, strings |-> <<>>, motd |-> MOTD(<<>>, <<>>), nil |-> FALSE,
     err |-> FALSE, term |-> <<>>, calls |-> 0]

\* reloadMap: the catalog installed afterwards
ReloadMap(current, loaded) == IF loaded.err THEN current ELSE loaded.map

NoCall == [nick |-> "", summary |-> FALSE, replaced |-> -1]

\* cmdLinks (BeginQuery)
cmdLinks(nick, summary, loaded) ==
    /\ ~crashed
    /\ queryNo < MaxQueries
    /\ stats' = AddStat(stats)
    /\ routingMap' = ReloadMap(routingMap, loaded)
    /\ linksTree' = NewLinkTree
    /\ linksTarget' = nick
    /\ linksSummary' = summary
    /\ pendingLinks' = Append(pendingLinks, queryNo + 1)
    /\ queryNo' = queryNo + 1
    /\ openQuery' = queryNo + 1
    /\ added' = <<>>
    /\ lastCall' = [nick |-> nick, summary |-> summary,
                    replaced |-> IF linksTree.nil THEN -1 ELSE Len(linksTree.order)]
    /\ reports' = Append(reports, 0)
    /\ sent' = <<>>
    /\ lastReport' = NoReport
    /\ UNCHANGED <<motd, logs, opers, pendingWhois, whois, invoked, received, arrived, admins, crashed, dataDir,
                   catalogs, loader, readers, result>>

IsOpenAlways(t) == TRUE

\* c.linksTree != nil
IsOpen(t) == ~t.nil

\* onLinks (364): a record of the reply to the oldest unanswered LINKS
onLinks(server, hub, hops, description) ==
    /\ ~crashed
    /\ pendingLinks # <<>>
    /\ IF IsOpen(linksTree)
       THEN /\ Len(linksTree.order) < MaxAdds
            /\ linksTree' = Add(linksTree, server, hub, hops, description)
            /\ added' = Append(added, [entry |-> LinkEntry(server, hub, hops, description),
                                       query |-> Head(pendingLinks)])
       ELSE UNCHANGED <<linksTree, added>>
    /\ sent' = <<>>
    /\ lastCall' = NoCall
    /\ lastReport' = NoReport
    /\ UNCHANGED <<linksTarget, linksSummary, routingMap, motd, stats, logs, opers, pendingWhois, whois, invoked, received, arrived, admins, pendingLinks,
                   queryNo, openQuery, reports, crashed, dataDir, catalogs, loader,
                   readers, result>>

TreeMessagesAlways(target, summary, built) ==
    [i \in DOMAIN built.lines |-> Msg(target, "tree", built.lines[i], 0, <<>>)]
    \o <<Msg(target, "End of server list.", NoLine, 0, <<>>),
         Msg(target, "Note - the map displayed above", NoLine, 0, <<>>)>>

\* onLinksEnd, lines 362-370: the tree lines, unless summary mode
TreeMessages(target, summary, built) ==
    IF summary THEN <<>>
    ELSE [i \in DOMAIN built.lines |-> Msg(target, "tree", built.lines[i], 0, <<>>)]
         \o <<Msg(target, "End of server list.", NoLine, 0, <<>>),
              Msg(target, "Note - the map displayed above", NoLine, 0, <<>>)>>

CompareMessagesLinkedFirst(target, cmp) ==
    <<Msg(target, "Linked servers", NoLine, cmp.linked, <<>>),
      Msg(target, "Total servers", NoLine, cmp.total, <<>>)>>
    \o (IF Len(cmp.missing) > 0
        THEN <<Msg(target, "Missing servers", NoLine, Len(cmp.missing), cmp.missing)>>
        ELSE <<Msg(target, "No servers are currently missing", NoLine, 0, <<>>)>>)

\* onLinksEnd, lines 372-381: the reconciliation lines
CompareMessages(target, cmp) ==
    <<Msg(target, "Total servers", NoLine, cmp.total, <<>>),
      Msg(target, "Linked servers", NoLine, cmp.linked, <<>>)>>
    \o (IF Len(cmp.missing) > 0
        THEN <<Msg(target, "Missing servers", NoLine, Len(cmp.missing), cmp.missing)>>
        ELSE <<Msg(target, "No servers are currently missing", NoLine, 0, <<>>)>>)

\* onLinksEnd, lines 383-386
MotdMessages(target, m) ==
    <<Msg(target, " ", NoLine, 0, <<>>),
      Msg(target, "[MOTD]", NoLine, 0, <<m.Message>>),
      Msg(target, "MOTD set by", NoLine, 0, <<m.Setter>>)>>

SnapshotKept == [tree |-> linksTree, target |-> linksTarget, summary |-> linksSummary]

\* onLinksEnd, lines 342-344: the collection state left behind
SnapshotTaken == [tree |-> NilTree, target |-> "", summary |-> FALSE]

\* onLinksEnd (365): the end of the reply to the oldest unanswered LINKS
onLinksEnd(root, iter) ==
    /\ ~crashed
    /\ pendingLinks # <<>>
    /\ pendingLinks' = Tail(pendingLinks)
    /\ linksTree' = SnapshotTaken.tree
    /\ linksTarget' = SnapshotTaken.target
    /\ linksSummary' = SnapshotTaken.summary
    /\ openQuery' = IF linksTree'.nil THEN 0 ELSE openQuery
    /\ added' = IF linksTree'.nil THEN <<>> ELSE added
    /\ IF linksTree.nil \/ linksTarget = ""
       THEN /\ sent' = <<>>
            /\ lastReport' = NoReport
            /\ UNCHANGED <<reports, crashed>>
       ELSE LET built == IF linksSummary THEN [crash |-> FALSE, lines |-> <<>>]
                         ELSE Build(linksTree, root)
                cmp == CompareToMap(linksTree, routingMap, iter)
            IN  IF built.crash
                THEN /\ crashed' = TRUE
                     /\ sent' = <<>>
                     /\ lastReport' = NoReport
                     /\ UNCHANGED reports
                ELSE /\ sent' = TreeMessages(linksTarget, linksSummary, built)
                                \o CompareMessages(linksTarget, cmp)
                                \o MotdMessages(linksTarget, motd)
                     /\ reports' = [reports EXCEPT ![openQuery] = @ + 1]
                     /\ lastReport' = [query |-> openQuery,
                                       origins |-> {added[i].query : i \in DOMAIN added}]
                     /\ UNCHANGED crashed
    /\ lastCall' = NoCall
    /\ UNCHANGED <<routingMap, motd, stats, logs, opers, pendingWhois, whois, invoked, received, arrived, admins, queryNo, dataDir, catalogs, loader, readers,
                   result>>

\* NewClient, no rmap.txt / motd.txt / stats.txt yet
Init ==
    /\ linksTree = NilTree
    /\ linksTarget = ""
    /\ linksSummary = FALSE
    /\ routingMap = EmptyMap
    /\ motd = [Setter |-> "", Message |-> ""]
    /\ stats = 0
    /\ logs = <<>>
    /\ opers = {}
    /\ pendingWhois = <<>>
    /\ whois = <<>>
    /\ invoked = <<>>
    /\ received = 0
    /\ arrived = <<>>
    /\ admins = {}
    /\ sent = <<>>
    /\ pendingLinks = <<>>
    /\ queryNo = 0
    /\ openQuery = 0
    /\ added = <<>>
    /\ lastCall = NoCall
    /\ reports = <<>>
    /\ lastReport = NoReport
    /\ crashed = FALSE
    /\ dataDir = NoFiles
    /\ catalogs = NoCatalogs
    /\ loader = NoLoad
    /\ readers = NoReaders
    /\ result = NoResult

Next ==
    \/ \E nick \in Nicks, summary \in BOOLEAN, loaded \in LoadOutcomes :
          cmdLinks(nick, summary, loaded)
    \/ \E server \in SessNames, hub \in SessNames, hops \in RootOrNot, description \in Descriptions :
          onLinks(server, hub, hops, description)
    \/ \E root \in RootChoices(linksTree), iter \in RangeOrders(Keys(linksTree)) :
          onLinksEnd(root, iter)

Spec == Init /\ [][Next]_vars

-----------------------------------------------------------------------------
(* Reference topology parser: routing.LoadMap *)

LF == 10
CR == 13
COLON == 58

\* the bytes the regexp class \s matches
RegexSpace == {9, 10, 12, 13, 32}

\* the ASCII bytes unicode.IsSpace holds for (strings.TrimSpace, strings.Fields)
UnicodeSpace == {9, 10, 11, 12, 13, 32}

\* 0-based index of the first byte b in s, or -1
IndexByte(s, b) ==
    IF \E i \in 1..Len(s) : s[i] = b
    THEN (CHOOSE i \in 1..Len(s) : s[i] = b /\ \A j \in 1..(i-1) : s[j] # b) - 1
    ELSE -1

\* bufio.ScanLines, dropCR: a token without its one trailing '\r'
DropCR(token) ==
    IF Len(token) > 0 /\ token[Len(token)] = CR THEN SubSeq(token, 1, Len(token) - 1)
    ELSE token

RECURSIVE ScanLines(_)
\* the tokens bufio.Scanner delivers for data: split after each '\n', the
\* last token also when it is not terminated, unless it is empty
ScanLines(data) ==
    IF data = <<>> THEN <<>>
    ELSE LET i == IndexByte(data, LF) IN
         IF i < 0 THEN <<DropCR(data)>>
         ELSE <<DropCR(SubSeq(data, 1, i))>> \o ScanLines(SubSeq(data, i + 2, Len(data)))

\* strings.ReplaceAll(line, "\r", "")
ReplaceAllCR(line) == SelectSeq(line, LAMBDA b : b # CR)

\* a regexp literal under (?i) matched at the start of s
HasPrefixFold(s, p) ==
    Len(s) >= Len(p) /\ ToLower(SubSeq(s, 1, Len(p))) = ToLower(p)

\* a regexp literal under (?i) matched anywhere in s
ContainsFold(s, p) ==
    \E i \in 1..(Len(s) - Len(p) + 1) : HasPrefixFold(SubSeq(s, i, Len(s)), p)

\* skipPatterns.MatchString(line):
\* (?i)^Tier|^Hub:|^Client:|^Special:|^LOA|===|DALnet Routing|^Temporary|^---|^\s*$
skipPatterns(line) ==
    \/ HasPrefixFold(line, <<84, 105, 101, 114>>)                  \* "Tier"
    \/ HasPrefixFold(line, <<72, 117, 98, 58>>)                    \* "Hub:"
    \/ HasPrefixFold(line, <<67, 108, 105, 101, 110, 116, 58>>)    \* "Client:"
    \/ HasPrefixFold(line, <<83, 112, 101, 99, 105, 97, 108, 58>>) \* "Special:"
    \/ HasPrefixFold(line, <<76, 79, 65>>)                         \* "LOA"
    \/ ContainsFold(line, <<61, 61, 61>>)                          \* "==="
    \/ ContainsFold(line, <<68, 65, 76, 110, 101, 116, 32, 82, 111, 117, 116, 105, 110, 103>>) \* "DALnet Routing"
    \/ HasPrefixFold(line, <<84, 101, 109, 112, 111, 114, 97, 114, 121>>) \* "Temporary"
    \/ HasPrefixFold(line, <<45, 45, 45>>)                         \* "---"
    \/ \A i \in DOMAIN line : line[i] \in RegexSpace

RECURSIVE TrimLeft(_)
TrimLeft(s) == IF s # <<>> /\ Head(s) \in UnicodeSpace THEN TrimLeft(Tail(s)) ELSE s

RECURSIVE TrimRight(_)
TrimRight(s) ==
    IF s # <<>> /\ s[Len(s)] \in UnicodeSpace THEN TrimRight(SubSeq(s, 1, Len(s) - 1)) ELSE s

\* strings.TrimSpace
TrimSpace(s) == TrimRight(TrimLeft(s))

RECURSIVE TakeField(_)
\* the bytes of s up to its first white space
TakeField(s) ==
    IF s = <<>> \/ Head(s) \in UnicodeSpace THEN <<>> ELSE <<Head(s)>> \o TakeField(Tail(s))

RECURSIVE Fields(_)
\* strings.Fields: the maximal runs of bytes that are not white space
Fields(s) ==
    LET t == TrimLeft(s) IN
    IF t = <<>> THEN <<>>
    ELSE <<TakeField(t)>> \o Fields(SubSeq(t, Len(TakeField(t)) + 1, Len(t)))

\* strings.SplitN(line, ":", 2) of a line that contains ':'
SplitAtColon(line) ==
    LET i == IndexByte(line, COLON) IN
    <<SubSeq(line, 1, i), SubSeq(line, i + 2, Len(line))>>

HubsUnfiltered(hubPart) == Fields(hubPart)

\* LoadMap, lines 262-268: the tokens kept as hubs
Hubs(hubPart) ==
    SelectSeq(Fields(hubPart), LAMBDA h : ~(Head(h) = 40) /\ ~(Head(h) = 61))

PutServerKeepsFirst(servers, server, hubs) ==
    [s \in DOMAIN servers \cup {server} |-> IF s \in DOMAIN servers THEN servers[s] ELSE hubs]

\* m.Servers[server] = hubs
PutServer(servers, server, hubs) ==
    [s \in DOMAIN servers \cup {server} |-> IF s = server THEN hubs ELSE servers[s]]

LoadLineSkipsNothing(m, token) ==
    LET line == ReplaceAllCR(token)
        raw == Append(m.Raw, line)
    IN  IF IndexByte(line, COLON) >= 0 /\ TrimSpace(SplitAtColon(line)[1]) # <<>>
        THEN LET parts == SplitAtColon(line)
                 server == TrimSpace(parts[1])
             IN  Map(raw, PutServer(m.Servers, server, Hubs(TrimSpace(parts[2]))),
                     Append(m.ServerList, server))
        ELSE Map(raw, m.Servers, m.ServerList)

LoadLineNewestFirst(m, token) ==
    LET line == ReplaceAllCR(token)
        raw == <<line>> \o m.Raw
    IN  IF skipPatterns(line) THEN Map(raw, m.Servers, m.ServerList)
        ELSE IF IndexByte(line, COLON) >= 0 /\ TrimSpace(SplitAtColon(line)[1]) # <<>>
        THEN LET parts == SplitAtColon(line)
                 server == TrimSpace(parts[1])
             IN  Map(raw, PutServer(m.Servers, server, Hubs(TrimSpace(parts[2]))),
                     <<server>> \o m.ServerList)
        ELSE Map(raw, m.Servers, m.ServerList)

\* LoadMap, lines 241-272: one turn of the loop "for scanner.Scan()"
LoadLine(m, token) ==
    LET line == ReplaceAllCR(token)
        raw == Append(m.Raw, line)
    IN  IF skipPatterns(line) THEN Map(raw, m.Servers, m.ServerList)
        ELSE IF IndexByte(line, COLON) >= 0 /\ TrimSpace(SplitAtColon(line)[1]) # <<>>
        THEN LET parts == SplitAtColon(line)
                 server == TrimSpace(parts[1])
             IN  Map(raw, PutServer(m.Servers, server, Hubs(TrimSpace(parts[2]))),
                     Append(m.ServerList, server))
        ELSE Map(raw, m.Servers, m.ServerList)

RECURSIVE LoadLines(_, _)
\* LoadMap, the loop over all tokens
LoadLines(m, tokens) ==
    IF tokens = <<>> THEN m ELSE LoadLines(LoadLine(m, Head(tokens)), Tail(tokens))

LoadMapMissingFails(file) ==
    IF file.state \in {"missing", "denied"} THEN [nil |-> TRUE, map |-> EmptyMap, err |-> TRUE]
    ELSE [nil |-> FALSE,
          map |-> LoadLines(EmptyMap, ScanLines(file.data)),
          err |-> file.state = "failing"]

\* routing.LoadMap: the *Map returned (or nil) and whether err != nil
LoadMap(file) ==
    IF file.state = "missing" THEN [nil |-> FALSE, map |-> EmptyMap, err |-> FALSE]
    ELSE IF file.state = "denied" THEN [nil |-> TRUE, map |-> EmptyMap, err |-> TRUE]
    ELSE [nil |-> FALSE,
          map |-> LoadLines(EmptyMap, ScanLines(file.data)),
          err |-> file.state = "failing"]

-----------------------------------------------------------------------------
(* Flat files: storage.LoadLogs, LoadStats, LoadMOTD *)

\* the result of os.Open / os.ReadFile on a file: "notexist", "other" or "" (nil)
OpenError(file) ==
    IF file.state = "missing" THEN "notexist"
    ELSE IF file.state = "denied" THEN "other" ELSE ""

\* readLines: the non-empty tokens, and the error
readLines(file) ==
    IF OpenError(file) # "" THEN [lines |-> <<>>, err |-> OpenError(file)]
    ELSE [lines |-> SelectSeq(ScanLines(file.data), LAMBDA line : line # <<>>),
          err |-> IF file.state = "failing" THEN "other" ELSE ""]

\* reverse
reverse(s) == [i \in DOMAIN s |-> s[Len(s) + 1 - i]]

LoadLogsOldestFirst(file) ==
    LET read == readLines(file) IN
    IF read.err # ""
    THEN IF read.err = "notexist" THEN [nil |-> FALSE, strings |-> <<>>, err |-> FALSE]
         ELSE [nil |-> TRUE, strings |-> <<>>, err |-> TRUE]
    ELSE [nil |-> FALSE, strings |-> read.lines, err |-> FALSE]

\* storage.LoadLogs
LoadLogs(file) ==
    LET read == readLines(file) IN
    IF read.err # ""
    THEN IF read.err = "notexist" THEN [nil |-> FALSE, strings |-> <<>>, err |-> FALSE]
         ELSE [nil |-> TRUE, strings |-> <<>>, err |-> TRUE]
    ELSE [nil |-> FALSE, strings |-> reverse(read.lines), err |-> FALSE]

\* storage.LoadStats
LoadStats(file) ==
    LET read == readLines(file) IN
    IF read.err # ""
    THEN IF read.err = "notexist" THEN [nil |-> FALSE, strings |-> <<>>, err |-> FALSE]
         ELSE [nil |-> TRUE, strings |-> <<>>, err |-> TRUE]
    ELSE [nil |-> FALSE, strings |-> read.lines, err |-> FALSE]

\* 0-based index of the first "%%" in s, or -1
IndexPercents(s) ==
    IF \E i \in 1..(Len(s) - 1) : s[i] = 37 /\ s[i + 1] = 37
    THEN (CHOOSE i \in 1..(Len(s) - 1) :
             /\ s[i] = 37 /\ s[i + 1] = 37
             /\ \A j \in 1..(i - 1) : ~(s[j] = 37 /\ s[j + 1] = 37)) - 1
    ELSE -1

\* storage.LoadMOTD
LoadMOTD(file) ==
    IF file.state = "missing" THEN [nil |-> FALSE, motd |-> MOTD(<<>>, <<>>), err |-> FALSE]
    ELSE IF file.state \in {"denied", "failing"}
    THEN [nil |-> TRUE, motd |-> MOTD(<<>>, <<>>), err |-> TRUE]
    ELSE LET line == TrimSpace(file.data)
             i == IndexPercents(line)
         IN  IF i < 0 THEN [nil |-> FALSE, motd |-> MOTD(<<>>, line), err |-> FALSE]
             ELSE [nil |-> FALSE,
                   motd |-> MOTD(SubSeq(line, 1, i), SubSeq(line, i + 3, Len(line))),
                   err |-> FALSE]

-----------------------------------------------------------------------------
(* SpecLoad: LoadMap, LoadLogs, LoadStats and LoadMOTD applied to the files  *)
(* of a data directory                                                      *)

\* the texts between two line feeds that rmap.txt is written with:
\* "a:b c", "a: c (x b =y", "B :a", "hub: s", "", "ab", " : b", "c\r:a\r", "loa:b", "d: ==="
SegmentList ==
    << <<97, 58, 98, 32, 99>>,
       <<97, 58, 32, 99, 32, 40, 120, 32, 98, 32, 61, 121>>,
       <<66, 32, 58, 97>>,
       <<104, 117, 98, 58, 32, 115>>,
       <<>>,
       <<97, 98>>,
       <<32, 58, 32, 98>>,
       <<99, 13, 58, 97, 13>>,
       <<108, 111, 97, 58, 98>>,
       <<100, 58, 32, 61, 61, 61>> >>

Segments == {SegmentList[i] : i \in DOMAIN SegmentList}

RECURSIVE Join(_, _)
\* the bytes of a file written as the segments segs, a line feed after each
\* one, after the last one only when final
Join(segs, final) ==
    IF segs = <<>> THEN <<>>
    ELSE IF Len(segs) = 1 THEN (IF final THEN Head(segs) \o <<LF>> ELSE Head(segs))
    ELSE Head(segs) \o <<LF>> \o Join(Tail(segs), final)

\* logs.txt, stats.txt, motd.txt: missing, unreadable, failing after "x\n", or one of
\* "x\n\ny\n" and " s%%m\n"
FlatFiles ==
    {File("missing", <<>>), File("denied", <<>>),
     File("failing", <<120, 10>>),
     File("ok", <<120, 10, 10, 121, 10>>),
     File("ok", <<32, 115, 37, 37, 109, 10>>)}

InitDir(dir) ==
    /\ linksTree = NilTree
    /\ linksTarget = ""
    /\ linksSummary = FALSE
    /\ routingMap = EmptyMap
    /\ motd = [Setter |-> "", Message |-> ""]
    /\ stats = 0
    /\ logs = <<>>
    /\ opers = {}
    /\ pendingWhois = <<>>
    /\ whois = <<>>
    /\ invoked = <<>>
    /\ received = 0
    /\ arrived = <<>>
    /\ admins = {}
    /\ sent = <<>>
    /\ pendingLinks = <<>>
    /\ queryNo = 0
    /\ openQuery = 0
    /\ added = <<>>
    /\ lastCall = NoCall
    /\ reports = <<>>
    /\ lastReport = NoReport
    /\ crashed = FALSE
    /\ dataDir = dir
    /\ catalogs = NoCatalogs
    /\ loader = NoLoad
    /\ readers = NoReaders
    /\ result = NoResult

InitLoad ==
    \/ \E state \in {"missing", "denied"} :
          InitDir([NoFiles EXCEPT !["rmap.txt"] = File(state, <<>>)])
    \/ \E state \in {"ok", "failing"}, n \in 0..MaxLines, final \in BOOLEAN :
          \E segs \in [1..n -> Segments] :
             InitDir([NoFiles EXCEPT !["rmap.txt"] = File(state, Join(segs, final))])
    \/ \E flat \in [FileNames \ {"rmap.txt"} -> FlatFiles] :
          InitDir([name \in FileNames |->
                     IF name = "rmap.txt" THEN File("missing", <<>>) ELSE flat[name]])

\* everything but result
operands == <<linksTree, linksTarget, linksSummary, routingMap, motd, stats, logs, opers, pendingWhois, whois, invoked, received, arrived, admins, sent,
              pendingLinks, queryNo, openQuery, added, lastCall, reports, lastReport,
              crashed, dataDir, catalogs, loader, readers>>

\* routing.LoadMap(dataDir)
ApplyLoadMap ==
    /\ result.op = "none"
    /\ LET loaded == LoadMap(dataDir["rmap.txt"]) IN
       result' = [NoResult EXCEPT !.op = "LoadMap", !.map = loaded.map,
                                  !.nil = loaded.nil, !.err = loaded.err]
    /\ UNCHANGED operands

\* storage.LoadLogs(dataDir)
ApplyLoadLogs ==
    /\ result.op = "none"
    /\ LET loaded == LoadLogs(dataDir["logs.txt"]) IN
       result' = [NoResult EXCEPT !.op = "LoadLogs", !.strings = loaded.strings,
                                  !.nil = loaded.nil, !.err = loaded.err]
    /\ UNCHANGED operands

\* storage.LoadStats(dataDir)
ApplyLoadStats ==
    /\ result.op = "none"
    /\ LET loaded == LoadStats(dataDir["stats.txt"]) IN
       result' = [NoResult EXCEPT !.op = "LoadStats", !.strings = loaded.strings,
                                  !.nil = loaded.nil, !.err = loaded.err]
    /\ UNCHANGED operands

\* storage.LoadMOTD(dataDir)
ApplyLoadMOTD ==
    /\ result.op = "none"
    /\ LET loaded == LoadMOTD(dataDir["motd.txt"]) IN
       result' = [NoResult EXCEPT !.op = "LoadMOTD", !.motd = loaded.motd,
                                  !.nil = loaded.nil, !.err = loaded.err]
    /\ UNCHANGED operands

NextLoad == ApplyLoadMap \/ ApplyLoadLogs \/ ApplyLoadStats \/ ApplyLoadMOTD

SpecLoad == InitLoad /\ [][NextLoad]_vars

-----------------------------------------------------------------------------
(* SpecReload: reloadMap running step by step while handlers read           *)
(* c.routingMap.  c.mu makes the assignment of reloadMap and each handler's  *)
(* read of c.routingMap one step each; everything else of a reload and of a *)
(* read is interleaved freely.                                              *)

\* the handlers that read, as many as may run at a time
ReaderIds == {1, 2}

\* the readers of c.routingMap: cmdMap and cmdUplinks copy the slice
\* c.routingMap.Raw, onLinksEnd copies the pointer and hands it to CompareToMap
ReaderKinds == {"cmdMap", "cmdUplinks", "onLinksEnd"}

\* rmap.txt at one time or another: two texts, a text whose reading fails,
\* unreadable, missing
ReloadFiles ==
    {File("ok", Join(<<SegmentList[1], SegmentList[3]>>, TRUE)),
     File("ok", Join(<<SegmentList[2]>>, FALSE)),
     File("failing", Join(<<SegmentList[1]>>, TRUE)),
     File("denied", <<>>),
     File("missing", <<>>)}

\* a routing.Map on the heap.  History: source is the tokens it is built
\* from, done whether LoadMap has returned it, published whether
\* c.routingMap has ever pointed at it
Object(map, source, done, published) ==
    [map |-> map, source |-> source, done |-> done, published |-> published]

\* a handler that is not reading
IdleReader ==
    [pc |-> "idle", kind |-> "", obj |-> 0, n |-> 0, seen |-> <<>>, total |-> 0,
     snap |-> EmptyMap]

\* no reloadMap call in progress, after calls of them
IdleLoad(calls) == [pc |-> "idle", m |-> 0, tokens |-> <<>>, err |-> FALSE, calls |-> calls]

AllocatePublished(cat, object) ==
    [heap |-> Append(cat.heap, [object EXCEPT !.published = TRUE]),
     installed |-> Len(cat.heap) + 1]

\* LoadMap, lines 225-229 and 235-238: m := &Map{...}
Allocate(cat, object) == [heap |-> Append(cat.heap, object), installed |-> cat.installed]

\* the catalog c.routingMap points at
Installed(cat) == cat.heap[cat.installed].map

\* the variables SpecReload leaves alone
linkState == <<linksTree, linksTarget, linksSummary, motd, stats, logs, opers, pendingWhois, whois, invoked, received, arrived, admins, sent, pendingLinks,
               queryNo, openQuery, added, lastCall, reports, lastReport, crashed, result>>

\* NewClient, lines 75-79: the catalog of rmap.txt, or an empty one when
\* LoadMap fails
InitReload ==
    \E file \in ReloadFiles :
        LET loaded == LoadMap(file)
            first == IF loaded.err THEN EmptyMap ELSE loaded.map
        IN  /\ linksTree = NilTree
            /\ linksTarget = ""
            /\ linksSummary = FALSE
            /\ routingMap = first
            /\ motd = [Setter |-> "", Message |-> ""]
            /\ stats = 0
            /\ logs = <<>>
            /\ opers = {}
            /\ pendingWhois = <<>>
            /\ whois = <<>>
            /\ invoked = <<>>
            /\ received = 0
            /\ arrived = <<>>
            /\ admins = {}
            /\ sent = <<>>
            /\ pendingLinks = <<>>
            /\ queryNo = 0
            /\ openQuery = 0
            /\ added = <<>>
            /\ lastCall = NoCall
            /\ reports = <<>>
            /\ lastReport = NoReport
            /\ crashed = FALSE
            /\ dataDir = [NoFiles EXCEPT !["rmap.txt"] = file]
            /\ catalogs = [heap |-> <<Object(first,
                                             IF loaded.err THEN <<>> ELSE ScanLines(file.data),
                                             TRUE, TRUE)>>,
                           installed |-> 1]
            /\ loader = IdleLoad(0)
            /\ readers = [r \in ReaderIds |-> IdleReader]
            /\ result = NoResult

\* rmap.txt is rewritten, removed or made unreadable.  A load goes by the
\* file as it is opened, so the changes made during a load are left for
\* after it
EditFile(file) ==
    /\ loader.pc = "idle"
    /\ file # dataDir["rmap.txt"]
    /\ dataDir' = [dataDir EXCEPT !["rmap.txt"] = file]
    /\ UNCHANGED <<routingMap, catalogs, loader, readers, linkState>>

\* reloadMap calls LoadMap, which opens rmap.txt (part_002:221-238)
BeginReload ==
    /\ loader.pc = "idle"
    /\ loader.calls < MaxReloads
    /\ LET file == dataDir["rmap.txt"] IN
       CASE file.state = "denied" ->
               /\ loader' = IdleLoad(loader.calls + 1)
               /\ UNCHANGED catalogs
         [] file.state = "missing" ->
               /\ catalogs' = Allocate(catalogs, Object(EmptyMap, <<>>, TRUE, FALSE))
               /\ loader' = [pc |-> "install", m |-> Len(catalogs.heap) + 1,
                              tokens |-> <<>>, err |-> FALSE, calls |-> loader.calls + 1]
         [] OTHER ->
               /\ catalogs' = Allocate(catalogs,
                                        Object(EmptyMap, ScanLines(file.data), FALSE, FALSE))
               /\ loader' = [pc |-> "scan", m |-> Len(catalogs.heap) + 1,
                              tokens |-> ScanLines(file.data),
                              err |-> file.state = "failing", calls |-> loader.calls + 1]
    /\ routingMap' = Installed(catalogs')
    /\ UNCHANGED <<dataDir, readers, linkState>>

\* LoadMap, one turn of the loop "for scanner.Scan()" (part_002:241-273)
ScanLine ==
    /\ loader.pc = "scan"
    /\ loader.tokens # <<>>
    /\ catalogs' = [catalogs EXCEPT !.heap[loader.m].map = LoadLine(@, Head(loader.tokens))]
    /\ loader' = [loader EXCEPT !.tokens = Tail(@)]
    /\ routingMap' = Installed(catalogs')
    /\ UNCHANGED <<dataDir, readers, linkState>>

ReturnFromLoadInstalls ==
    /\ loader.pc = "scan"
    /\ loader.tokens = <<>>
    /\ catalogs' = [catalogs EXCEPT !.heap[loader.m].done = TRUE]
    /\ loader' = [loader EXCEPT !.pc = "install"]
    /\ routingMap' = Installed(catalogs')
    /\ UNCHANGED <<dataDir, readers, linkState>>

\* LoadMap returns m, scanner.Err(); reloadMap returns when err != nil
\* (part_002:275, part_001:409-412)
ReturnFromLoad ==
    /\ loader.pc = "scan"
    /\ loader.tokens = <<>>
    /\ catalogs' = [catalogs EXCEPT !.heap[loader.m].done = TRUE]
    /\ loader' = IF loader.err THEN IdleLoad(loader.calls)
                  ELSE [loader EXCEPT !.pc = "install"]
    /\ routingMap' = Installed(catalogs')
    /\ UNCHANGED <<dataDir, readers, linkState>>

\* reloadMap, c.mu.Lock(); c.routingMap = rmap; c.mu.Unlock() (part_001:414-416)
Install ==
    /\ loader.pc = "install"
    /\ catalogs' = [catalogs EXCEPT !.installed = loader.m,
                                     !.heap[loader.m].published = TRUE]
    /\ loader' = IdleLoad(loader.calls)
    /\ routingMap' = Installed(catalogs')
    /\ UNCHANGED <<dataDir, readers, linkState>>

\* the field of a Map a reader of this kind goes through
FieldRead(kind, map) == IF kind = "onLinksEnd" THEN map.ServerList ELSE map.Raw

\* a handler reads c.routingMap under c.mu.RLock(): cmdMap and cmdUplinks
\* "raw := c.routingMap.Raw" (part_001:105-107, 120-122, 145-147), onLinksEnd
\* "rmap := c.routingMap" (part_000:357-360)
StartRead(r, kind) ==
    /\ readers[r].pc \in {"idle", "done"}
    /\ readers' = [readers EXCEPT ![r] =
                      [pc |-> IF kind = "onLinksEnd" THEN "compare" ELSE "reading",
                       kind |-> kind,
                       obj |-> catalogs.installed,
                       n |-> IF kind = "onLinksEnd" THEN 0 ELSE Len(Installed(catalogs).Raw),
                       seen |-> <<>>,
                       total |-> 0,
                       snap |-> Installed(catalogs)]]
    /\ UNCHANGED <<routingMap, dataDir, catalogs, loader, linkState>>

\* CompareToMap, "for _, server := range rmap.ServerList" evaluates its
\* range expression (links.go:159)
StartRange(r) ==
    /\ readers[r].pc = "compare"
    /\ readers' = [readers EXCEPT ![r].pc = "reading",
                                   ![r].n = Len(catalogs.heap[readers[r].obj].map.ServerList)]
    /\ UNCHANGED <<routingMap, dataDir, catalogs, loader, linkState>>

\* one turn of the reader's loop over the slice
ReadElement(r) ==
    /\ readers[r].pc = "reading"
    /\ Len(readers[r].seen) < readers[r].n
    /\ LET field == FieldRead(readers[r].kind, catalogs.heap[readers[r].obj].map)
           i == Len(readers[r].seen) + 1
       IN  readers' = [readers EXCEPT ![r].seen =
                          Append(@, IF i <= Len(field) THEN field[i] ELSE <<>>)]
    /\ UNCHANGED <<routingMap, dataDir, catalogs, loader, linkState>>

\* the reader's loop ends; CompareToMap returns len(rmap.ServerList) (links.go:169)
FinishRead(r) ==
    /\ readers[r].pc = "reading"
    /\ Len(readers[r].seen) = readers[r].n
    /\ readers' = [readers EXCEPT ![r].pc = "done",
                                   ![r].total = IF readers[r].kind = "onLinksEnd"
                                                THEN Len(catalogs.heap[readers[r].obj].map.ServerList)
                                                ELSE 0]
    /\ UNCHANGED <<routingMap, dataDir, catalogs, loader, linkState>>

NextReload ==
    \/ \E file \in ReloadFiles : EditFile(file)
    \/ BeginReload
    \/ ScanLine
    \/ ReturnFromLoad
    \/ Install
    \/ \E r \in ReaderIds, kind \in ReaderKinds : StartRead(r, kind)
    \/ \E r \in ReaderIds : StartRange(r)
    \/ \E r \in ReaderIds : ReadElement(r)
    \/ \E r \in ReaderIds : FinishRead(r)

SpecReload == InitReload /\ [][NextReload]_vars

-----------------------------------------------------------------------------
(* SpecTree: Build applied to every snapshot over Names *)

\* the snapshot Add leaves when called once per server of K, in ascending
\* order, with hub g[s][1], hop count g[s][2] and description g[s][3]
TreeOf(K, g) ==
    [nil |-> FALSE,
     entries |-> [s \in K |-> LinkEntry(s, g[s][1], g[s][2], g[s][3])],
     order |-> SortByServer(K)]

InitWith(tree, rmap) ==
    /\ linksTree = tree
    /\ linksTarget = ""
    /\ linksSummary = FALSE
    /\ routingMap = rmap
    /\ motd = [Setter |-> "", Message |-> ""]
    /\ stats = 0
    /\ logs = <<>>
    /\ opers = {}
    /\ pendingWhois = <<>>
    /\ whois = <<>>
    /\ invoked = <<>>
    /\ received = 0
    /\ arrived = <<>>
    /\ admins = {}
    /\ sent = <<>>
    /\ pendingLinks = <<>>
    /\ queryNo = 0
    /\ openQuery = 0
    /\ added = <<>>
    /\ lastCall = NoCall
    /\ reports = <<>>
    /\ lastReport = NoReport
    /\ crashed = FALSE
    /\ dataDir = NoFiles
    /\ catalogs = NoCatalogs
    /\ loader = NoLoad
    /\ readers = NoReaders
    /\ result = NoResult

InitTree ==
    \E K \in SUBSET Names : \E g \in [K -> Names \X RootOrNot \X Descriptions] :
        InitWith(TreeOf(K, g), EmptyMap)

\* tree.Build()
ApplyBuild(root) ==
    /\ result.op = "none"
    /\ LET built == Build(linksTree, root) IN
       result' = [NoResult EXCEPT !.op = "Build", !.root = root, !.crash = built.crash,
                                  !.lines = built.lines]
    /\ UNCHANGED <<linksTree, linksTarget, linksSummary, routingMap, motd, stats, logs, opers, pendingWhois, whois, invoked, received, arrived, admins, sent,
                   pendingLinks, queryNo, openQuery, added, lastCall, reports, lastReport,
                   crashed, dataDir, catalogs, loader, readers>>

NextTree == \E root \in RootChoices(linksTree) : ApplyBuild(root)

SpecTree == InitTree /\ [][NextTree]_vars

-----------------------------------------------------------------------------
(* SpecCompare: GetLinkedServers and CompareToMap applied to every snapshot *)
(* over KeyNames and every catalog over CatNames                           *)

\* "a", "A.b", "a.c", ".a"
KeyNames == {<<97>>, <<65, 46, 98>>, <<97, 46, 99>>, <<46, 97>>}

\* "A", "a.c", "B.b", ".a"
CatNames == {<<65>>, <<97, 46, 99>>, <<66, 46, 98>>, <<46, 97>>}

ServerLists == UNION {[1..n -> CatNames] : n \in 0..MaxList}

InitCompare ==
    \E K \in SUBSET KeyNames : \E g \in [K -> {<<97>>} \X RootOrNot \X Descriptions] :
        \E list \in ServerLists : InitWith(TreeOf(K, g), CatalogOf(list))

\* tree.GetLinkedServers()
ApplyGetLinkedServers(iter) ==
    /\ result.op = "none"
    /\ result' = [NoResult EXCEPT !.op = "GetLinkedServers",
                                  !.names = GetLinkedServers(linksTree, iter)]
    /\ UNCHANGED <<linksTree, linksTarget, linksSummary, routingMap, motd, stats, logs, opers, pendingWhois, whois, invoked, received, arrived, admins, sent,
                   pendingLinks, queryNo, openQuery, added, lastCall, reports, lastReport,
                   crashed, dataDir, catalogs, loader, readers>>

\* CompareToMap(tree, rmap)
ApplyCompareToMap(iter) ==
    /\ result.op = "none"
    /\ LET cmp == CompareToMap(linksTree, routingMap, iter) IN
       result' = [NoResult EXCEPT !.op = "CompareToMap", !.total = cmp.total,
                                  !.linked = cmp.linked, !.missing = cmp.missing]
    /\ UNCHANGED <<linksTree, linksTarget, linksSummary, routingMap, motd, stats, logs, opers, pendingWhois, whois, invoked, received, arrived, admins, sent,
                   pendingLinks, queryNo, openQuery, added, lastCall, reports, lastReport,
                   crashed, dataDir, catalogs, loader, readers>>

NextCompare ==
    \/ \E iter \in RangeOrders(Keys(linksTree)) : ApplyGetLinkedServers(iter)
    \/ \E iter \in RangeOrders(Keys(linksTree)) : ApplyCompareToMap(iter)

SpecCompare == InitCompare /\ [][NextCompare]_vars

-----------------------------------------------------------------------------
(* Catalog lookups: Map.GetUplinks and Map.FindServer *)

\* strings.HasPrefix(s, p)
HasPrefix(s, p) == Len(s) >= Len(p) /\ SubSeq(s, 1, Len(p)) = p

\* the value GetUplinks returns: a nil slice, or the slice stored in Servers
Uplinks(nil, hubs) == [nil |-> nil, hubs |-> hubs]

\* the range over m.Servers, in iteration order iter: the first name that
\* starts with the lowered term decides
RECURSIVE FirstPrefixMatch(_, _, _)
FirstPrefixMatch(m, server, iter) ==
    IF iter = <<>> THEN Uplinks(TRUE, <<>>)
    ELSE IF HasPrefix(ToLower(Head(iter)), server)
         THEN Uplinks(m.Servers[Head(iter)] = <<>>, m.Servers[Head(iter)])
         ELSE FirstPrefixMatch(m, server, Tail(iter))

GetUplinksPrefixOnly(m, server, iter) == FirstPrefixMatch(m, ToLower(server), iter)

\* m.GetUplinks(server); iter is the iteration order of the range over m.Servers
GetUplinks(m, server, iter) ==
    IF server \in DOMAIN m.Servers
    THEN Uplinks(m.Servers[server] = <<>>, m.Servers[server])
    ELSE FirstPrefixMatch(m, ToLower(server), iter)

FindServerCaseSensitive(m, prefix) ==
    SelectSeq(m.ServerList, LAMBDA name : HasPrefix(name, prefix))

\* m.FindServer(prefix)
FindServer(m, prefix) ==
    SelectSeq(m.ServerList, LAMBDA name : HasPrefix(ToLower(name), ToLower(prefix)))

(* SpecLookup: GetUplinks and FindServer applied to every catalog over *)
(* LookupNames and every term of Terms                                  *)

\* "a", "ab", "Ab", "b"
LookupNames == {<<97>>, <<97, 98>>, <<65, 98>>, <<98>>}

\* the uplinks a catalog line gives each name; "b" has none
LookupHubs(name) ==
    CASE name = <<97>>     -> <<<<104, 49>>>>                  \* "h1"
      [] name = <<97, 98>> -> <<<<104, 50>>, <<104, 49>>>>     \* "h2", "h1"
      [] name = <<65, 98>> -> <<<<104, 51>>>>                  \* "h3"
      [] OTHER             -> <<>>

\* "", "a", "A", "ab", "AB", "b", "c", "abc"
Terms == {<<>>, <<97>>, <<65>>, <<97, 98>>, <<65, 66>>, <<98>>, <<99>>, <<97, 98, 99>>}

\* the catalog LoadMap builds from lines naming the servers of list in order
LookupCatalog(list) ==
    Map(<<>>, [name \in {list[i] : i \in DOMAIN list} |-> LookupHubs(name)], list)

InitLookup ==
    \E n \in 0..MaxServers : \E list \in [1..n -> LookupNames] :
        InitWith(NilTree, LookupCatalog(list))

\* routingMap.GetUplinks(term)
ApplyGetUplinks(term, iter) ==
    /\ result.op = "none"
    /\ LET up == GetUplinks(routingMap, term, iter) IN
       result' = [NoResult EXCEPT !.op = "GetUplinks", !.term = term,
                                  !.nil = up.nil, !.strings = up.hubs]
    /\ UNCHANGED <<linksTree, linksTarget, linksSummary, routingMap, motd, stats, logs, opers, pendingWhois, whois, invoked, received, arrived, admins, sent,
                   pendingLinks, queryNo, openQuery, added, lastCall, reports, lastReport,
                   crashed, dataDir, catalogs, loader, readers>>

\* routingMap.FindServer(prefix)
ApplyFindServer(prefix) ==
    /\ result.op = "none"
    /\ LET matches == FindServer(routingMap, prefix) IN
       result' = [NoResult EXCEPT !.op = "FindServer", !.term = prefix,
                                  !.nil = (matches = <<>>), !.strings = matches]
    /\ UNCHANGED <<linksTree, linksTarget, linksSummary, routingMap, motd, stats, logs, opers, pendingWhois, whois, invoked, received, arrived, admins, sent,
                   pendingLinks, queryNo, openQuery, added, lastCall, reports, lastReport,
                   crashed, dataDir, catalogs, loader, readers>>

NextLookup ==
    \/ \E term \in Terms : \E iter \in RangeOrders(DOMAIN routingMap.Servers) :
           ApplyGetUplinks(term, iter)
    \/ \E prefix \in Terms : ApplyFindServer(prefix)

SpecLookup == InitLookup /\ [][NextLookup]_vars

-----------------------------------------------------------------------------
(* SpecRender: Build applied to every snapshot over RenderNames whose *)
(* records report hop counts up to MaxHops                             *)

\* "a", "b", "c", "d"
RenderNames == {<<97>>, <<98>>, <<99>>, <<100>>}

\* the hop counts a LINKS reply reports
HopCounts == 0..MaxHops

InitRender ==
    \E K \in SUBSET RenderNames : \E g \in [K -> RenderNames \X HopCounts \X Descriptions] :
        InitWith(TreeOf(K, g), EmptyMap)

NextRender == \E root \in RootChoices(linksTree) : ApplyBuild(root)

SpecRender == InitRender /\ [][NextRender]_vars

-----------------------------------------------------------------------------
(* SpecPure: Build, GetLinkedServers and CompareToMap applied to the *)
(* snapshots and catalogs of SpecCompare                              *)

NextPure == NextTree \/ NextCompare

SpecPure == InitCompare /\ [][NextPure]_vars

-----------------------------------------------------------------------------
(* Writing the flat files: AddLog, SaveLogs, SaveMOTD *)

AddLogDropsHead(list, entry) ==
    LET prepended == <<entry>> \o list IN
    IF Len(prepended) > maxEntries THEN SubSeq(prepended, 2, Len(prepended)) ELSE prepended

\* storage.AddLog
AddLog(list, entry) ==
    LET prepended == <<entry>> \o list IN
    IF Len(prepended) > maxEntries THEN SubSeq(prepended, 1, maxEntries) ELSE prepended

RECURSIVE Fprintln(_)
\* writeLines, the loop: every line followed by '\n' (the first half of the
\* lines, then the second half)
Fprintln(lines) ==
    IF lines = <<>> THEN <<>>
    ELSE IF Len(lines) = 1 THEN lines[1] \o <<LF>>
    ELSE LET half == Len(lines) \div 2 IN
         Fprintln(SubSeq(lines, 1, half)) \o Fprintln(SubSeq(lines, half + 1, Len(lines)))

\* writeLines: os.Create fails on a file that cannot be opened, and truncates
\* any other
writeLines(file, lines) ==
    IF file.state = "denied" THEN [file |-> file, err |-> TRUE]
    ELSE [file |-> File("ok", Fprintln(lines)), err |-> FALSE]

\* storage.SaveLogs
SaveLogs(file, list) == writeLines(file, reverse(list))

SaveMOTDOnePercent(file, m) ==
    IF file.state = "denied" THEN [file |-> file, err |-> TRUE]
    ELSE [file |-> File("ok", m.Setter \o <<37>> \o m.Message \o <<LF>>), err |-> FALSE]

\* storage.SaveMOTD: Sprintf("%s%%%%%s\n", Setter, Message) through os.WriteFile
SaveMOTD(file, m) ==
    IF file.state = "denied" THEN [file |-> file, err |-> TRUE]
    ELSE [file |-> File("ok", m.Setter \o <<37, 37>> \o m.Message \o <<LF>>), err |-> FALSE]

(* SpecStore: AddLog, SaveLogs then LoadLogs, SaveMOTD then LoadMOTD *)

\* "x", "y z", "", "x\ny", "x\r"
LogEntries == {<<120>>, <<121, 32, 122>>, <<>>, <<120, 10, 121>>, <<120, 13>>}

\* "n", "x": the entries AddLog is called with
NewEntries == {<<110>>, <<120>>}

\* "e" and three digits: the i-th entry of a full list
LongEntry(i) == <<101, 48 + (i \div 100), 48 + ((i \div 10) % 10), 48 + (i % 10)>>

\* the lists of maxEntries - 1 and of maxEntries entries
LongLists == {[i \in 1..n |-> LongEntry(i)] : n \in {maxEntries - 1, maxEntries}}

\* "s", "", "s%", " s", "a%%b", "s "
Setters == {<<115>>, <<>>, <<115, 37>>, <<32, 115>>, <<97, 37, 37, 98>>, <<115, 32>>}

\* "m", "", "m ", "%m", "a%%b", " m"
Messages == {<<109>>, <<>>, <<109, 32>>, <<37, 109>>, <<97, 37, 37, 98>>, <<32, 109>>}

InitStoreWith(list, m, state) ==
    /\ linksTree = NilTree
    /\ linksTarget = ""
    /\ linksSummary = FALSE
    /\ routingMap = EmptyMap
    /\ motd = m
    /\ stats = 0
    /\ logs = list
    /\ opers = {}
    /\ pendingWhois = <<>>
    /\ whois = <<>>
    /\ invoked = <<>>
    /\ received = 0
    /\ arrived = <<>>
    /\ admins = {}
    /\ sent = <<>>
    /\ pendingLinks = <<>>
    /\ queryNo = 0
    /\ openQuery = 0
    /\ added = <<>>
    /\ lastCall = NoCall
    /\ reports = <<>>
    /\ lastReport = NoReport
    /\ crashed = FALSE
    /\ dataDir = [NoFiles EXCEPT !["logs.txt"] = File(state, <<>>),
                                 !["motd.txt"] = File(state, <<>>)]
    /\ catalogs = NoCatalogs
    /\ loader = NoLoad
    /\ readers = NoReaders
    /\ result = NoResult

\* a client holding a short log list and no MOTD, or a MOTD and no log, before
\* logs.txt and motd.txt exist or with both unwritable; or a client holding a
\* full log list, its files unwritable
InitStore ==
    \/ \E state \in {"missing", "denied"} :
           \/ \E n \in 0..MaxLogs : \E list \in [1..n -> LogEntries] :
                  InitStoreWith(list, MOTD(<<>>, <<>>), state)
           \/ \E setter \in Setters : \E message \in Messages :
                  InitStoreWith(<<>>, MOTD(setter, message), state)
    \/ \E list \in LongLists : InitStoreWith(list, MOTD(<<>>, <<>>), "denied")

\* c.logs = storage.AddLog(c.logs, entry)
ApplyAddLog(entry) ==
    /\ result.op \in {"none", "AddLog"}
    /\ result.calls < MaxAddLogs
    /\ logs' = AddLog(logs, entry)
    /\ result' = [NoResult EXCEPT !.op = "AddLog", !.term = entry,
                                  !.calls = result.calls + 1]
    /\ UNCHANGED <<linksTree, linksTarget, linksSummary, routingMap, motd, stats, opers,
                   pendingWhois, whois, invoked, received, arrived, admins, sent,
                   pendingLinks, queryNo, openQuery, added, lastCall, reports, lastReport,
                   crashed, dataDir, catalogs, loader, readers>>

\* storage.SaveLogs(dataDir, c.logs)
ApplySaveLogs ==
    /\ result.op \in {"none", "AddLog"}
    /\ LET saved == SaveLogs(dataDir["logs.txt"], logs) IN
       /\ dataDir' = [dataDir EXCEPT !["logs.txt"] = saved.file]
       /\ result' = [NoResult EXCEPT !.op = "SaveLogs", !.err = saved.err]
    /\ UNCHANGED <<linksTree, linksTarget, linksSummary, routingMap, motd, stats, logs, opers, pendingWhois, whois, invoked, received, arrived, admins, sent,
                   pendingLinks, queryNo, openQuery, added, lastCall, reports, lastReport,
                   crashed, catalogs, loader, readers>>

\* storage.LoadLogs(dataDir) after SaveLogs
ReadBackLogs ==
    /\ result.op = "SaveLogs"
    /\ LET loaded == LoadLogs(dataDir["logs.txt"]) IN
       result' = [NoResult EXCEPT !.op = "LoadLogs", !.strings = loaded.strings,
                                  !.nil = loaded.nil, !.err = loaded.err]
    /\ UNCHANGED operands

\* storage.SaveMOTD(dataDir, c.motd)
ApplySaveMOTD ==
    /\ result.op = "none"
    /\ LET saved == SaveMOTD(dataDir["motd.txt"], motd) IN
       /\ dataDir' = [dataDir EXCEPT !["motd.txt"] = saved.file]
       /\ result' = [NoResult EXCEPT !.op = "SaveMOTD", !.err = saved.err]
    /\ UNCHANGED <<linksTree, linksTarget, linksSummary, routingMap, motd, stats, logs, opers, pendingWhois, whois, invoked, received, arrived, admins, sent,
                   pendingLinks, queryNo, openQuery, added, lastCall, reports, lastReport,
                   crashed, catalogs, loader, readers>>

\* storage.LoadMOTD(dataDir) after SaveMOTD
ReadBackMOTD ==
    /\ result.op = "SaveMOTD"
    /\ LET loaded == LoadMOTD(dataDir["motd.txt"]) IN
       result' = [NoResult EXCEPT !.op = "LoadMOTD", !.motd = loaded.motd,
                                  !.nil = loaded.nil, !.err = loaded.err]
    /\ UNCHANGED operands

NextStore ==
    \/ \E entry \in NewEntries : ApplyAddLog(entry)
    \/ ApplySaveLogs
    \/ ReadBackLogs
    \/ ApplySaveMOTD
    \/ ReadBackMOTD

SpecStore == InitStore /\ [][NextStore]_vars

-----------------------------------------------------------------------------
(* SpecOrphan: Build, GetLinkedServers and CompareToMap applied to every    *)
(* snapshot over RenderNames, hubs present or not, and the catalog of them  *)

\* the hubs a record names: the servers of RenderNames and "x", which no
\* snapshot holds
HubNames == RenderNames \cup {<<120>>}

\* every record names any hub; "a" reports 0 hops and the others 1
InitOrphan ==
    \E K \in SUBSET RenderNames : \E hub \in [K -> HubNames] :
        InitWith(TreeOf(K, [s \in K |-> <<hub[s], IF s = <<97>> THEN 0 ELSE 1, "Hub">>]),
                 CatalogOf(SortByServer(RenderNames)))

SpecOrphan == InitOrphan /\ [][NextPure]_vars

-----------------------------------------------------------------------------
(* Operator gate: onPrivMsg, onWhoisOper, onWhoisEnd *)

\* the people who message the bot: alice is an IRC operator, bob is not.
\* hostmask is nuh.Canonical(), nick!user@host
GateUsers ==
    {[nick |-> "alice", hostmask |-> "alice!a@oper.net", oper |-> TRUE],
     [nick |-> "bob", hostmask |-> "bob!b@user.net", oper |-> FALSE]}

\* the texts of their messages
MsgTexts == {"!version", "hello"}

\* pendingCheck
PendingCheck(hostmask, message) == [hostmask |-> hostmask, message |-> message]

\* a call of handleCommand(nick, hostmask, message) or of
\* logCommand(hostmask, command); command is the pieces Sprintf joins
Call(fn, nick, hostmask, text) ==
    [fn |-> fn, nick |-> nick, hostmask |-> hostmask, text |-> text]

KnownOperAnyone(hostmask) == TRUE

\* c.opers[hostmask]
KnownOper(hostmask) == hostmask \in opers

\* handleCommand: "!version" goes to cmdVersion, which logs the command and
\* answers with three lines; "hello" matches no case of the switch
handleCommand(nick, hostmask, message) ==
    /\ invoked' = invoked \o <<Call("handleCommand", nick, hostmask, <<message>>)>>
                    \o (IF message = "!version"
                        THEN <<Call("logCommand", "", hostmask, <<message>>)>> ELSE <<>>)
    /\ stats' = (IF message = "!version" THEN AddStat(stats) ELSE stats)
    /\ sent' = (IF message = "!version"
                THEN <<Msg(nick, "rnexus version", NoLine, 0, <<>>),
                       Msg(nick, "Built:", NoLine, 0, <<>>),
                       Msg(nick, "Commit:", NoLine, 0, <<>>)>>
                ELSE <<>>)

\* onPrivMsg, for a message addressed to the bot's nick
onPrivMsg(user, message) ==
    /\ received < MaxMsgs
    /\ received' = received + 1
    /\ arrived' = Append(arrived, [nick |-> user.nick, hostmask |-> user.hostmask,
                                    message |-> message])
    /\ IF KnownOper(user.hostmask)
       THEN /\ handleCommand(user.nick, user.hostmask, message)
            /\ UNCHANGED <<pendingWhois, whois>>
       ELSE /\ pendingWhois' =
                   [n \in DOMAIN pendingWhois \cup {user.nick} |->
                       IF n = user.nick THEN PendingCheck(user.hostmask, message)
                       ELSE pendingWhois[n]]
            /\ whois' = Append(whois, [nick |-> user.nick, oper |-> FALSE])
            /\ sent' = <<>>
            /\ UNCHANGED <<invoked, stats>>
    /\ UNCHANGED <<linksTree, linksTarget, linksSummary, routingMap, motd, logs, opers, admins,
                   pendingLinks, queryNo, openQuery, added, lastCall, reports, lastReport,
                   crashed, dataDir, catalogs, loader, readers, result>>

\* onWhoisOper (313): the server answers the oldest WHOIS, about an operator
onWhoisOper(nick) ==
    /\ whois # <<>>
    /\ Head(whois).nick = nick
    /\ ~Head(whois).oper
    /\ \E user \in GateUsers : user.nick = nick /\ user.oper
    /\ whois' = [whois EXCEPT ![1].oper = TRUE]
    /\ IF nick \in DOMAIN pendingWhois
       THEN /\ opers' = opers \cup {pendingWhois[nick].hostmask}
            /\ handleCommand(nick, pendingWhois[nick].hostmask, pendingWhois[nick].message)
       ELSE /\ sent' = <<>>
            /\ UNCHANGED <<opers, invoked, stats>>
    /\ UNCHANGED <<linksTree, linksTarget, linksSummary, routingMap, motd, logs,
                   pendingWhois, received, arrived, admins, pendingLinks, queryNo, openQuery, added,
                   lastCall, reports, lastReport, crashed, dataDir, catalogs, loader,
                   readers, result>>

\* onWhoisEnd (318): the reply to the oldest WHOIS ends, after its 313 when it
\* is about an operator
onWhoisEnd(nick) ==
    /\ whois # <<>>
    /\ Head(whois).nick = nick
    /\ \E user \in GateUsers : user.nick = nick /\ user.oper = Head(whois).oper
    /\ whois' = Tail(whois)
    /\ pendingWhois' = [n \in DOMAIN pendingWhois \ {nick} |-> pendingWhois[n]]
    /\ IF nick \in DOMAIN pendingWhois /\ ~KnownOper(pendingWhois[nick].hostmask)
       THEN /\ invoked' = Append(invoked,
                              Call("logCommand", "", pendingWhois[nick].hostmask,
                                   <<"USER - ", pendingWhois[nick].message>>))
            /\ stats' = AddStat(stats)
       ELSE UNCHANGED <<invoked, stats>>
    /\ sent' = <<>>
    /\ UNCHANGED <<linksTree, linksTarget, linksSummary, routingMap, motd, logs, opers,
                   received, arrived, admins, pendingLinks, queryNo, openQuery, added, lastCall, reports,
                   lastReport, crashed, dataDir, catalogs, loader, readers, result>>

(* SpecGate: private messages of an operator and of another user, and the *)
(* WHOIS replies of the server                                            *)

InitGate == InitWith(NilTree, EmptyMap)

NextGate ==
    \/ \E user \in GateUsers : \E message \in MsgTexts : onPrivMsg(user, message)
    \/ \E nick \in Nicks : onWhoisOper(nick)
    \/ \E nick \in Nicks : onWhoisEnd(nick)

SpecGate == InitGate /\ [][NextGate]_vars

\* the server answers every WHOIS: a 313 when the nick is an operator, then
\* a 318, and the connection runs the callback of every line it reads
SpecGateLive ==
    /\ InitGate
    /\ [][NextGate]_vars
    /\ WF_vars(\E nick \in Nicks : onWhoisOper(nick))
    /\ WF_vars(\E nick \in Nicks : onWhoisEnd(nick))

-----------------------------------------------------------------------------
(* The command dispatcher and the admin commands (SpecAdmin) *)

\* the operators who send commands: each has passed the WHOIS check
AdminUsers == {[nick |-> "alice", hostmask |-> "alice!a@oper.net"],
               [nick |-> "bob", hostmask |-> "bob!b@oper.net"]}

\* c.cfg.Nick
cfgNick == "rnexus"

\* the nick as the bytes Sprintf writes
NickBytes(nick) ==
    CASE nick = "alice" -> <<97, 108, 105, 99, 101>>
      [] nick = "bob" -> <<98, 111, 98>>
      [] OTHER -> <<114, 110, 101, 120, 117, 115>>

\* c.cfg.AdminPass: "pw"
AdminPass == <<112, 119>>

\* time.Now().UTC().Format(...): "T"
Timestamp == <<84>>

\* the message texts an operator sends
AdminTexts ==
    {<<33, 108, 111, 103, 105, 110, 32, 112, 119>>,                \* "!login pw"
     <<33, 108, 111, 103, 105, 110, 32, 110, 111>>,                \* "!login no"
     <<33, 108, 111, 103, 105, 110>>,                   \* "!login"
     <<33, 115, 117, 32, 112, 119>>,                   \* "!su pw"
     <<33, 108, 111, 103, 111, 117, 116>>,                  \* "!logout"
     <<33, 115, 101, 116, 32, 109, 111, 116, 100, 32, 109>>,              \* "!set motd m"
     <<33, 115, 101, 116, 32, 109, 111, 116, 100>>,                \* "!set motd"
     <<33, 115, 101, 116, 32, 120>>,                   \* "!set x"
     <<33, 114, 101, 108, 111, 97, 100>>,                  \* "!reload"
     <<32, 33, 82, 101, 108, 111, 97, 100, 32>>,                \* " !Reload "
     <<33, 110, 105, 99, 107, 32, 122>>,                  \* "!nick z"
     <<33, 110, 105, 99, 107>>,                    \* "!nick"
     <<33, 114, 101, 115, 116, 97, 114, 116>>,                 \* "!restart"
     <<33, 115, 104, 117, 116, 100, 111, 119, 110>>,                \* "!shutdown"
     <<33, 118, 101, 114, 115, 105, 111, 110>>,                 \* "!version"
     <<104, 105>>,                       \* "hi"
     <<33, 108, 111, 103, 105, 110, 120, 32, 112, 119>>,               \* "!loginx pw"
     <<>>,                                           \* ""
     <<32>>,                        \* " "
     <<9, 32>>}                      \* "\t "

\* the cases of the switch in handleCommand: the command word and the
\* function it selects
Cases ==
    {<<<<33, 104, 101, 108, 112>>, "cmdHelp">>,
     <<<<33, 108, 105, 110, 107, 115>>, "cmdLinks">>,
     <<<<33, 115, 117, 109, 109, 97, 114, 121>>, "cmdLinks">>,
     <<<<33, 109, 97, 112>>, "cmdMap">>,
     <<<<33, 117, 112, 108, 105, 110, 107, 115>>, "cmdUplinks">>,
     <<<<33, 108, 111, 103, 115>>, "cmdLogs">>,
     <<<<33, 108, 111, 103, 115, 101, 97, 114, 99, 104>>, "cmdLogSearch">>,
     <<<<33, 109, 111, 116, 100>>, "cmdMotd">>,
     <<<<33, 118, 101, 114, 115, 105, 111, 110>>, "cmdVersion">>,
     <<<<33, 108, 111, 103, 105, 110>>, "cmdLogin">>,
     <<<<33, 115, 117>>, "cmdLogin">>,
     <<<<33, 108, 111, 103, 111, 117, 116>>, "cmdLogout">>,
     <<<<33, 115, 101, 116>>, "cmdSet">>,
     <<<<33, 114, 101, 108, 111, 97, 100>>, "cmdReload">>,
     <<<<33, 110, 105, 99, 107>>, "cmdNick">>,
     <<<<33, 114, 101, 115, 116, 97, 114, 116>>, "cmdRestart">>,
     <<<<33, 115, 104, 117, 116, 100, 111, 119, 110>>, "cmdShutdown">>}

\* the function the switch selects for cmd; "" when no case matches
Selected(cmd) ==
    IF \E c \in Cases : c[1] = cmd THEN (CHOOSE c \in Cases : c[1] = cmd)[2] ELSE ""

\* the first two statements of handleCommand: strings.Fields(message)[0]
\* of the trimmed message, lowered; indexing the empty slice panics
FirstWord(message) ==
    LET fields == Fields(TrimSpace(message)) IN
    IF fields = <<>> THEN [panic |-> TRUE, cmd |-> <<>>]
    ELSE [panic |-> FALSE, cmd |-> ToLower(fields[1])]

\* strings.SplitN(s, " ", 3)
SplitN3(s) ==
    LET i == IndexByte(s, 32) IN
    IF i < 0 THEN <<s>>
    ELSE LET rest == SubSeq(s, i + 2, Len(s))
             j == IndexByte(rest, 32)
         IN  IF j < 0 THEN <<SubSeq(s, 1, i), rest>>
             ELSE <<SubSeq(s, 1, i), SubSeq(rest, 1, j), SubSeq(rest, j + 2, Len(rest))>>

IsAdminAnyone(nick) == TRUE

\* c.admins[nick]
IsAdmin(nick) == nick \in admins

\* what a command function leaves behind: the fields of the client it
\* assigns, the lines it sends, and the calls it makes (logCommand, reloadMap,
\* SetNick, the OnRestart and OnShutdown hooks); Untouched is a function
\* that returns at once
Untouched ==
    [admins |-> admins, motd |-> motd, routingMap |-> routingMap, dataDir |-> dataDir,
     stats |-> stats, sent |-> <<>>, calls |-> <<>>]

\* c.conn.Privmsg(nick, text) or c.conn.SendRaw(text + nick)
Line(nick, text) == Msg(nick, text, NoLine, 0, <<>>)

\* c.logCommand(hostmask, command): AddStat and SaveStats; command is the
\* format and its argument
Logged(effect, hostmask, command) ==
    [effect EXCEPT !.stats = AddStat(effect.stats),
                   !.calls = effect.calls \o <<Call("logCommand", "", hostmask, command)>>]

\* cmdVersion
cmdVersion(nick, hostmask, message) ==
    [Logged(Untouched, hostmask, <<"%s", message>>) EXCEPT
        !.sent = <<Line(nick, "rnexus version"), Line(nick, "Built:"), Line(nick, "Commit:")>>]

\* cmdLogin
cmdLogin(nick, hostmask, message) ==
    LET parts == Fields(message) IN
    IF Len(parts) < 2
    THEN [Untouched EXCEPT !.sent = <<Line(nick, "Usage: !login <password>")>>]
    ELSE IF parts[2] = AdminPass
    THEN Logged([Untouched EXCEPT
                    !.admins = admins \cup {nick},
                    !.sent = <<Line(nick, "WATCH +"),
                               Line(nick, "Password accepted, you are now an admin")>>],
                hostmask, <<"successful login", <<>>>>)
    ELSE Logged([Untouched EXCEPT !.sent = <<Line(nick, "Password incorrect")>>],
                hostmask, <<"INCORRECT LOGIN ATTEMPT", <<>>>>)

\* cmdLogout
cmdLogout(nick, hostmask, message) ==
    IF IsAdmin(nick)
    THEN Logged([Untouched EXCEPT
                    !.admins = admins \ {nick},
                    !.sent = <<Line(nick, "WATCH -"), Line(nick, "You have been logged out")>>],
                hostmask, <<"logged out", <<>>>>)
    ELSE Logged([Untouched EXCEPT
                    !.admins = admins \ {nick},
                    !.sent = <<Line(nick, "You're not logged in!")>>],
                hostmask, <<"tried to log out, but wasn't logged in", <<>>>>)

\* cmdSet: only "!set motd" does anything; c.motd is assigned before
\* SaveMOTD, whose failure is reported and not logged
cmdSet(nick, hostmask, message) ==
    IF ~HasPrefix(ToLower(message), <<33, 115, 101, 116, 32, 109, 111, 116, 100>>)   \* "!set motd"
    THEN Untouched
    ELSE IF ~IsAdmin(nick)
    THEN Logged([Untouched EXCEPT
                    !.sent = <<Line(nick, "Sorry, only my admins can change the motd")>>],
                hostmask, <<"tried to change MOTD but wasn't logged in", <<>>>>)
    ELSE LET parts == SplitN3(message) IN
         IF Len(parts) < 3
         THEN [Untouched EXCEPT !.sent = <<Line(nick, "Usage: !set motd <message>")>>]
         ELSE LET newMotd == TrimSpace(parts[3])
                  set == MOTD(NickBytes(nick) \o <<32, 111, 110, 32>> \o Timestamp, newMotd)
                  saved == SaveMOTD(dataDir["motd.txt"], set)
              IN  IF saved.err
                  THEN [Untouched EXCEPT !.motd = set,
                                         !.sent = <<Line(nick, "Error saving MOTD:")>>]
                  ELSE Logged([Untouched EXCEPT
                                  !.motd = set,
                                  !.dataDir = [dataDir EXCEPT !["motd.txt"] = saved.file],
                                  !.sent = <<Line(nick, "MOTD has been set to")>>],
                              hostmask, <<"changed MOTD to %s", newMotd>>)

\* cmdReload; loaded is what routing.LoadMap returns inside reloadMap
cmdReload(nick, hostmask, message, loaded) ==
    IF ~IsAdmin(nick)
    THEN Logged([Untouched EXCEPT
                    !.sent = <<Line(nick, "Sorry, only my admins can issue that command")>>],
                hostmask, <<"tried to reload routing map, but wasn't logged in", <<>>>>)
    ELSE Logged([Untouched EXCEPT
                    !.routingMap = ReloadMap(routingMap, loaded),
                    !.sent = <<Line(nick, "Reloading routing map..."), Line(nick, "Done.")>>,
                    !.calls = <<Call("reloadMap", "", "", <<"", <<>>>>)>>],
                hostmask, <<"reloaded routing map", <<>>>>)

\* cmdNick; the line "Changed nick to" is sent by a timer a second later
cmdNick(nick, hostmask, message) ==
    LET parts == Fields(message)
        newNick == IF Len(parts) > 1 THEN parts[2] ELSE <<>>
    IN  IF ~IsAdmin(nick)
        THEN Logged([Untouched EXCEPT
                        !.sent = <<Line(nick, "Sorry, only my admins can change my nick")>>],
                    hostmask, <<"nick change command to %s, not logged in", newNick>>)
        ELSE IF newNick = <<>>
        THEN [Untouched EXCEPT !.sent = <<Line(nick, "Usage: !nick <newnick>")>>]
        ELSE Logged([Untouched EXCEPT
                        !.sent = <<Line(nick, "Changed nick to")>>,
                        !.calls = <<Call("SetNick", "", "", <<"%s", newNick>>)>>],
                    hostmask, <<"nick change command to %s", newNick>>)

\* cmdRestart: the hook is called after the log entry and the line
cmdRestart(nick, hostmask, message) ==
    IF ~IsAdmin(nick)
    THEN Logged([Untouched EXCEPT
                    !.sent = <<Line(nick, "Sorry, only my admins can restart me")>>],
                hostmask, <<"issued the restart command but wasn't logged in", <<>>>>)
    ELSE LET logged == Logged(Untouched, hostmask, <<"restart command", <<>>>>) IN
         [logged EXCEPT !.sent = <<Line(nick, "Restarting")>>,
                        !.calls = logged.calls \o <<Call("OnRestart", "", "", <<"", <<>>>>)>>]

\* cmdShutdown
cmdShutdown(nick, hostmask, message) ==
    IF ~IsAdmin(nick)
    THEN Logged([Untouched EXCEPT
                    !.sent = <<Line(nick, "Sorry, only my admins can shut me down")>>],
                hostmask, <<"issued the shutdown command but wasn't logged in", <<>>>>)
    ELSE LET logged == Logged(Untouched, hostmask, <<"%s", message>>) IN
         [logged EXCEPT !.sent = <<Line(nick, "Shutting down")>>,
                        !.calls = logged.calls \o <<Call("OnShutdown", "", "", <<"", <<>>>>)>>]

\* the body of the case the switch selects; no case: nothing is done
Handled(fn, nick, hostmask, message, loaded) ==
    CASE fn = "cmdVersion" -> cmdVersion(nick, hostmask, message)
      [] fn = "cmdLogin" -> cmdLogin(nick, hostmask, message)
      [] fn = "cmdLogout" -> cmdLogout(nick, hostmask, message)
      [] fn = "cmdSet" -> cmdSet(nick, hostmask, message)
      [] fn = "cmdReload" -> cmdReload(nick, hostmask, message, loaded)
      [] fn = "cmdNick" -> cmdNick(nick, hostmask, message)
      [] fn = "cmdRestart" -> cmdRestart(nick, hostmask, message)
      [] fn = "cmdShutdown" -> cmdShutdown(nick, hostmask, message)
      [] OTHER -> Untouched

\* the commands SpecAdmin follows; the read-only commands (!help, !map,
\* !uplinks, !logs, !logsearch, !motd) and the queries (!links, !summary,
\* followed in Spec) are not sent in it
Followed ==
    {"", "cmdVersion", "cmdLogin", "cmdLogout", "cmdSet", "cmdReload", "cmdNick",
     "cmdRestart", "cmdShutdown"}

\* handleCommand(nick, hostmask, message) for an operator's message, called
\* by onPrivMsg or onWhoisOper; invoked holds the calls of this message alone.
\* The index expression panics when the message has no field. LoadMap is
\* called by cmdReload alone, and returns one of LoadOutcomes.
handleMessage(user, message) ==
    /\ ~crashed
    /\ received < MaxCommands
    /\ received' = received + 1
    /\ LET first == FirstWord(message)
           trimmed == TrimSpace(message)
           call == Call("handleCommand", user.nick, user.hostmask, <<"%s", message>>)
       IN  IF first.panic
           THEN /\ crashed' = TRUE
                /\ invoked' = <<call>>
                /\ sent' = <<>>
                /\ UNCHANGED <<admins, motd, routingMap, dataDir, stats>>
           ELSE /\ Selected(first.cmd) \in Followed
                /\ \E loaded \in (IF Selected(first.cmd) = "cmdReload"
                                  THEN LoadOutcomes ELSE {[err |-> TRUE, map |-> EmptyMap]}) :
                      LET effect == Handled(Selected(first.cmd), user.nick, user.hostmask,
                                            trimmed, loaded)
                      IN  /\ admins' = effect.admins
                          /\ motd' = effect.motd
                          /\ routingMap' = effect.routingMap
                          /\ dataDir' = effect.dataDir
                          /\ stats' = effect.stats
                          /\ sent' = effect.sent
                          /\ invoked' = <<call>> \o effect.calls
                /\ UNCHANGED crashed
    /\ UNCHANGED <<linksTree, linksTarget, linksSummary, logs, opers, pendingWhois, whois, arrived,
                   pendingLinks, queryNo, openQuery, added, lastCall, reports, lastReport,
                   catalogs, loader, readers, result>>

\* onWatchLogout: 601 <me> <nick> ...
onWatchLogout(nick) ==
    /\ ~crashed
    /\ admins' = (IF nick = cfgNick THEN admins \ {nick}
                  ELSE IF nick \in admins THEN admins \ {nick} ELSE admins)
    /\ sent' = <<Line(nick, "WATCH -")>>
    /\ invoked' = <<Call("onWatchLogout", nick, "", <<"", <<>>>>)>>
    /\ UNCHANGED <<linksTree, linksTarget, linksSummary, routingMap, motd, stats, logs, opers,
                   pendingWhois, whois, received, arrived, pendingLinks, queryNo, openQuery, added,
                   lastCall, reports, lastReport, crashed, dataDir, catalogs, loader,
                   readers, result>>

\* the client after NewClient: nobody is an admin; motd.txt can or cannot
\* be written
InitAdmin ==
    \E m \in SessCatalogs \cup {EmptyMap} : \E state \in {"missing", "denied"} :
        /\ linksTree = NilTree
        /\ linksTarget = ""
        /\ linksSummary = FALSE
        /\ routingMap = m
        /\ motd = MOTD(<<>>, <<>>)
        /\ stats = 0
        /\ logs = <<>>
        /\ opers = {user.hostmask : user \in AdminUsers}
        /\ pendingWhois = <<>>
        /\ whois = <<>>
        /\ invoked = <<>>
        /\ received = 0
        /\ arrived = <<>>
        /\ admins = {}
        /\ sent = <<>>
        /\ pendingLinks = <<>>
        /\ queryNo = 0
        /\ openQuery = 0
        /\ added = <<>>
        /\ lastCall = NoCall
        /\ reports = <<>>
        /\ lastReport = NoReport
        /\ crashed = FALSE
        /\ dataDir = [NoFiles EXCEPT !["motd.txt"] = File(state, <<>>)]
        /\ catalogs = NoCatalogs
        /\ loader = NoLoad
        /\ readers = NoReaders
        /\ result = NoResult

NextAdmin ==
    \/ \E user \in AdminUsers : \E message \in AdminTexts : handleMessage(user, message)
    \/ \E nick \in Nicks \cup {cfgNick} : onWatchLogout(nick)

SpecAdmin == InitAdmin /\ [][NextAdmin]_vars

-----------------------------------------------------------------------------
(* Properties of the tree builder (SpecTree) *)

\* the server names of the lines Build returned, in order
BuiltServers == [i \in DOMAIN result.lines |-> result.lines[i].Server]

\* Build returned the lines of a tree walk
BuiltTree == result.op = "Build" /\ ~result.crash /\ result.root # <<>>

\* c is a child of p: its hub is p and it is not p itself
IsChild(t, c, p) == c \in Keys(t) /\ t.entries[c].Hub = p /\ c # p

RECURSIVE HubChainReaches(_, _, _, _)
\* following at most n hub pointers from s leads to x
HubChainReaches(t, s, x, n) ==
    \/ s = x
    \/ /\ n > 0
       /\ s \in Keys(t)
       /\ t.entries[s].Hub # s
       /\ HubChainReaches(t, t.entries[s].Hub, x, n - 1)

\* the records below x
Descendants(t, x) ==
    {s \in Keys(t) \ {x} :
        HubChainReaches(t, t.entries[s].Hub, x, Cardinality(Keys(t))) /\ t.entries[s].Hub # s}

\* exactly one record has hops == 0, it has no parent in the snapshot, and
\* the hub pointers of all other records lead to it
IsHubTree(t) ==
    /\ Cardinality({s \in Keys(t) : t.entries[s].Hops = 0}) = 1
    /\ \A r \in Keys(t) : t.entries[r].Hops = 0 =>
          /\ t.entries[r].Hub = r \/ t.entries[r].Hub \notin Keys(t)
          /\ \A s \in Keys(t) \ {r} : s \in Descendants(t, r)

\* C1: for a snapshot with exactly one hops == 0 record whose hub pointers
\* form a tree, Build returns one line per record, the root's first, and
\* every record exactly once
C1_RootFirstEveryRecordOnce ==
    (result.op = "Build" /\ IsHubTree(linksTree)) =>
        /\ ~result.crash
        /\ Len(BuiltServers) = Cardinality(Keys(linksTree))
        /\ {BuiltServers[i] : i \in DOMAIN BuiltServers} = Keys(linksTree)
        /\ linksTree.entries[BuiltServers[1]].Hops = 0

\* a tree of four records, one of them two levels below the root, was built
C1_Witness ==
    /\ result.op = "Build"
    /\ IsHubTree(linksTree)
    /\ Cardinality(Keys(linksTree)) = 4
    /\ \E s \in Keys(linksTree) :
          /\ linksTree.entries[s].Hub # result.root
          /\ linksTree.entries[s].Hub # s

\* the sequence q backwards, and q started at each of its elements
Rearranged(q) ==
    {[i \in DOMAIN q |-> q[Len(q) + 1 - i]]}
    \cup {[i \in DOMAIN q |-> q[((i + k - 1) % Len(q)) + 1]] : k \in DOMAIN q}

\* C2: in the built sequence the children of a node come in ascending
\* byte-wise order of name, and the sequence is the same when the records
\* were added in the opposite order or in a rotated order
C2_ChildrenAscending ==
    BuiltTree =>
        /\ \A i, j \in DOMAIN BuiltServers :
              (/\ BuiltServers[i] # BuiltServers[j]
               /\ \E p \in Keys(linksTree) :
                     /\ IsChild(linksTree, BuiltServers[i], p)
                     /\ IsChild(linksTree, BuiltServers[j], p)
               /\ StringLess(BuiltServers[i], BuiltServers[j])) => i < j
        /\ \A arrival \in Rearranged(linksTree.order) :
              Build([linksTree EXCEPT !.order = arrival], result.root).lines = result.lines

\* a node with three children was built, an upper-case name among them
C2_Witness ==
    /\ BuiltTree
    /\ \E p \in Keys(linksTree) :
          /\ Cardinality({c \in Keys(linksTree) : IsChild(linksTree, c, p)}) = 3
          /\ \A c \in Keys(linksTree) \ {p} : c \in {BuiltServers[i] : i \in DOMAIN BuiltServers}
          /\ NameList[1] \in Keys(linksTree) \ {p}

\* C3: the built sequence is a pre-order depth-first walk: every node is
\* immediately followed by exactly the records below it
C3_PreOrder ==
    BuiltTree =>
        \A i \in DOMAIN BuiltServers :
            LET below == Descendants(linksTree, BuiltServers[i]) IN
            /\ i + Cardinality(below) <= Len(BuiltServers)
            /\ {BuiltServers[j] : j \in (i + 1)..(i + Cardinality(below))} = below

\* the scenario root / a, b under root / c under a was built as root, a, c, b
C3_Witness ==
    /\ BuiltTree
    /\ Len(BuiltServers) = 4
    /\ IsChild(linksTree, BuiltServers[2], BuiltServers[1])
    /\ IsChild(linksTree, BuiltServers[3], BuiltServers[2])
    /\ IsChild(linksTree, BuiltServers[4], BuiltServers[1])

-----------------------------------------------------------------------------
(* Properties of the reconciler and of the short names (SpecCompare) *)

RECURSIVE UpToDot(_)
\* the part of a name before its first '.'
UpToDot(s) ==
    IF s = <<>> \/ Head(s) = 46 THEN <<>> ELSE <<Head(s)>> \o UpToDot(Tail(s))

\* a name with its upper-case letters A-Z replaced by a-z
Lowered(s) ==
    [i \in DOMAIN s |-> IF s[i] >= 65 /\ s[i] <= 90 THEN s[i] + 32 ELSE s[i]]

\* the name kept whole when nothing precedes its first '.'
Stripped(s) == IF UpToDot(s) = <<>> THEN s ELSE UpToDot(s)

Elements(q) == {q[i] : i \in DOMAIN q}

\* {stripped, lower-cased catalog names} minus {stripped, lower-cased snapshot names}
LoweredDifference ==
    {Lowered(Stripped(routingMap.ServerList[i])) : i \in DOMAIN routingMap.ServerList}
    \ {Lowered(Stripped(k)) : k \in Keys(linksTree)}

\* C4 as stated: the names returned as missing are exactly the set
\* difference of the stripped, lower-cased names
C4_MissingIsLoweredDifference ==
    result.op = "CompareToMap" => Elements(result.missing) = LoweredDifference

\* C4 (amended): the names returned as missing are stripped catalog names in
\* the case the catalog writes them; lower-cased, they are exactly the set
\* difference of the stripped, lower-cased names; and the result depends
\* neither on the order the records were added in nor on the order the map
\* is ranged over
C4_MissingLoweredIsDifference ==
    result.op = "CompareToMap" =>
        /\ {Lowered(result.missing[i]) : i \in DOMAIN result.missing} = LoweredDifference
        /\ \A i \in DOMAIN result.missing :
              \E j \in DOMAIN routingMap.ServerList :
                 result.missing[i] = Stripped(routingMap.ServerList[j])
        /\ \A iter \in RangeOrders(Keys(linksTree)) :
              CompareToMap([linksTree EXCEPT !.order = iter], routingMap, iter).missing
                 = result.missing

\* a catalog name written in upper case is missing while another catalog
\* name is matched by a snapshot name of different case and domain
C4_Witness ==
    /\ result.op = "CompareToMap"
    /\ Cardinality(Keys(linksTree)) >= 2
    /\ \E i \in DOMAIN result.missing : Lowered(result.missing[i]) # result.missing[i]
    /\ \E j \in DOMAIN routingMap.ServerList :
          /\ Stripped(routingMap.ServerList[j]) \notin Elements(result.missing)
          /\ routingMap.ServerList[j] \notin Keys(linksTree)

\* C5: total is the length of the catalog's server list, duplicates counted,
\* and the linked count is the number of keys of the snapshot
C5_TotalAndLinkedCounts ==
    result.op = "CompareToMap" =>
        /\ result.total = Len(routingMap.ServerList)
        /\ result.linked = Cardinality(Keys(linksTree))

\* a catalog listing a name twice was compared, two records sharing a short
\* name, and linked + missing differs from total
C5_Witness ==
    /\ result.op = "CompareToMap"
    /\ Cardinality(Elements(routingMap.ServerList)) < Len(routingMap.ServerList)
    /\ \E k1, k2 \in Keys(linksTree) : k1 # k2 /\ Lowered(Stripped(k1)) = Lowered(Stripped(k2))
    /\ result.linked + Len(result.missing) # result.total

C11_StrippingIdempotent ==
    /\ result.op = "GetLinkedServers" =>
          /\ \A i \in DOMAIN result.names : ShortName(result.names[i]) = result.names[i]
          /\ \A k \in Keys(linksTree) : 46 \notin Elements(k) => k \in Elements(result.names)
    /\ result.op = "CompareToMap" =>
          /\ \A i \in DOMAIN result.missing : ShortName(result.missing[i]) = result.missing[i]
          /\ \A j \in DOMAIN routingMap.ServerList :
                (/\ 46 \notin Elements(routingMap.ServerList[j])
                 /\ Lowered(routingMap.ServerList[j]) \in LoweredDifference)
                    => routingMap.ServerList[j] \in Elements(result.missing)

\* the catalog lists an upper-case name without '.' and a name with a domain,
\* and both were returned as missing, the second one stripped
C11_Witness ==
    /\ result.op = "CompareToMap"
    /\ Len(result.missing) = 2
    /\ \E j \in DOMAIN routingMap.ServerList :
          /\ 46 \notin Elements(routingMap.ServerList[j])
          /\ Lowered(routingMap.ServerList[j]) # routingMap.ServerList[j]
          /\ routingMap.ServerList[j] \in Elements(result.missing)
    /\ \E j \in DOMAIN routingMap.ServerList :
          /\ 46 \in Elements(routingMap.ServerList[j])
          /\ routingMap.ServerList[j] \notin Elements(result.missing)

-----------------------------------------------------------------------------
(* Properties of the client's links collection (Spec) *)

\* C6: every report is made only from records of the reply to the query
\* that opened the reported snapshot; no record of an earlier query's reply
\* is rendered or reconciled
C6_OnlyOwnReplyReported ==
    lastReport.query # 0 => lastReport.origins \subseteq {lastReport.query}

\* the step is a 365 being handled
IsLinksEnd == Len(pendingLinks') < Len(pendingLinks)

\* the step is a cmdLinks call
IsBeginQuery == queryNo' = queryNo + 1

\* C7: handling a 365 leaves no snapshot, no target and no summary flag;
\* with a snapshot open it sends a report and counts it for the query that
\* opened the snapshot (unless Build never returns), without one it sends
\* nothing; and no query ever has more than one report
C7_ConsumedOnce ==
    [][/\ IsLinksEnd =>
            /\ linksTree' = NilTree /\ linksTarget' = "" /\ linksSummary' = FALSE
            /\ (linksTree.nil => sent' = <<>> /\ reports' = reports)
            /\ (~linksTree.nil /\ ~crashed' =>
                    /\ sent' # <<>>
                    /\ \A k \in DOMAIN sent' : sent'[k].to = linksTarget
                    /\ reports'[openQuery] = reports[openQuery] + 1)
       /\ \A q \in DOMAIN reports' : reports'[q] <= 1]_vars

\* two queries were begun and both 365 handled: the second query was
\* reported once, and the second 365 found no snapshot and sent nothing
C7_Witness ==
    /\ queryNo = 2
    /\ pendingLinks = <<>>
    /\ reports = <<0, 1>>
    /\ linksTree.nil
    /\ sent = <<>>
    /\ ~crashed

\* C8: a cmdLinks call leaves an open, empty snapshot with the requester
\* and the summary flag of this call, whatever was open before; and an open
\* snapshot is always that of the latest cmdLinks call
C8_BeginLeavesOneEmptySnapshot ==
    [][/\ IsBeginQuery =>
            /\ ~linksTree'.nil
            /\ Keys(linksTree') = {}
            /\ linksTree'.order = <<>>
            /\ linksTarget' = lastCall'.nick
            /\ linksSummary' = lastCall'.summary
       /\ ~linksTree'.nil => openQuery' = queryNo']_vars

\* a cmdLinks call has replaced a snapshot holding two records or more,
\* with another requester and the other flag than the call before
C8_Witness ==
    /\ lastCall.replaced >= 2
    /\ Keys(linksTree) = {}
    /\ linksTarget = "bob"
    /\ linksSummary
    /\ queryNo = 2

\* the last element of added that is about server
LastAdded(server) ==
    added[CHOOSE i \in DOMAIN added :
            /\ added[i].entry.Server = server
            /\ \A j \in DOMAIN added : j > i => added[j].entry.Server # server].entry

\* C9: the open snapshot holds, for each server added, the record of the
\* last Add for that server and nothing else, and its arrival order lists
\* the servers of all Add calls in call order, duplicates included
C9_LastAddWinsOrderKept ==
    ~linksTree.nil =>
        /\ Keys(linksTree) = {added[i].entry.Server : i \in DOMAIN added}
        /\ \A s \in Keys(linksTree) : linksTree.entries[s] = LastAdded(s)
        /\ linksTree.order = [i \in DOMAIN added |-> added[i].entry.Server]

\* a server was added, then another, then the first again with another record
C9_Witness ==
    /\ ~linksTree.nil
    /\ Len(added) = 3
    /\ added[1].entry.Server = added[3].entry.Server
    /\ added[1].entry # added[3].entry
    /\ added[2].entry.Server # added[1].entry.Server

\* no record of the snapshot has hops == 0
HasNoRoot(t) == \A s \in Keys(t) : t.entries[s].Hops # 0

\* the tree lines among the messages q
TreeLinesSent(q) == SelectSeq(q, LAMBDA m : m.kind = "tree")

\* the messages q are a full report to target that ran to its last line
FullReportCompleted(q, target) ==
    /\ q # <<>>
    /\ \A k \in DOMAIN q : q[k].to = target
    /\ \E k \in DOMAIN q : q[k].kind = "End of server list."
    /\ \E k \in DOMAIN q : q[k].kind = "Total servers"
    /\ \E k \in DOMAIN q : q[k].kind = "Linked servers"
    /\ q[Len(q)].kind = "MOTD set by"

\* the step is a 365 ending a full query whose snapshot has no hops == 0 record
IsRootlessEnd == IsLinksEnd /\ ~linksTree.nil /\ ~linksSummary /\ HasNoRoot(linksTree)

\* C12 as stated: the 365 of a full query whose snapshot has no hops == 0
\* record, the snapshot without records included, sends exactly one
\* diagnostic line as the tree, does not fail and completes its report
C12_RootlessOneDiagnosticLine ==
    [][IsRootlessEnd =>
          /\ ~crashed'
          /\ TreeLinesSent(sent') = <<Msg(linksTarget, "tree", NoRootLine, 0, <<>>)>>
          /\ FullReportCompleted(sent', linksTarget)]_vars

\* C12 (amended): the 365 of a full query whose snapshot has records but
\* none with hops == 0 sends exactly one diagnostic line as the tree; for
\* the snapshot without records it sends no tree line at all; in both cases
\* it does not fail and completes its report
C12_RootlessDiagnosticUnlessEmpty ==
    [][IsRootlessEnd =>
          /\ ~crashed'
          /\ TreeLinesSent(sent') =
                (IF Keys(linksTree) = {} THEN <<>>
                 ELSE <<Msg(linksTarget, "tree", NoRootLine, 0, <<>>)>>)
          /\ FullReportCompleted(sent', linksTarget)]_vars

\* a report whose tree is the one diagnostic line was sent and completed
C12_Witness ==
    /\ ~crashed
    /\ lastReport.query # 0
    /\ TreeLinesSent(sent) = <<Msg(sent[1].to, "tree", NoRootLine, 0, <<>>)>>
    /\ FullReportCompleted(sent, sent[1].to)

\* the kinds of the client's own framing around the engine's output: the
\* note naming the connected server, and the MOTD trailer
FramingKinds == {"Note - the map displayed above", " ", "[MOTD]", "MOTD set by"}

\* the kinds of the reconciliation lines
ReconciliationKinds == {"Total servers", "Linked servers", "Missing servers",
                        "No servers are currently missing"}

\* the messages q without the client's framing
EngineOutput(q) == SelectSeq(q, LAMBDA m : m.kind \notin FramingKinds)

\* the step is a 365 that makes a report
IsReport == IsLinksEnd /\ ~linksTree.nil /\ ~crashed'

C14_FullReportOrder ==
    [][(IsReport /\ ~linksSummary) =>
          LET out == EngineOutput(sent')
              n == Len(TreeLinesSent(sent'))
          IN  /\ Len(out) = n + 4
              /\ \A i \in 1..n : out[i].kind = "tree"
              /\ out[n + 1].kind = "End of server list."
              /\ out[n + 2].kind = "Total servers"
              /\ out[n + 2].count = Len(routingMap.ServerList)
              /\ out[n + 3].kind = "Linked servers"
              /\ out[n + 3].count = Cardinality(Keys(linksTree))
              /\ \/ /\ out[n + 4].kind = "Missing servers"
                    /\ out[n + 4].names # <<>>
                    /\ out[n + 4].count = Len(out[n + 4].names)
                    /\ Elements(out[n + 4].names) \subseteq
                          {Stripped(routingMap.ServerList[j]) : j \in DOMAIN routingMap.ServerList}
                 \/ /\ out[n + 4].kind = "No servers are currently missing"
                    /\ \A j \in DOMAIN routingMap.ServerList :
                          \E k \in Keys(linksTree) :
                             Lowered(Stripped(k)) = Lowered(Stripped(routingMap.ServerList[j]))
              /\ ~HasNoRoot(linksTree) =>
                    \E root \in RootChoices(linksTree) :
                       /\ out[1].line.Server = root
                       /\ n = 1 + Cardinality(Descendants(linksTree, root))
                       /\ {out[i].line.Server : i \in 1..n} =
                             {root} \cup Descendants(linksTree, root)]_vars

\* a full report was made of a root and a server below it, with a catalog
\* name missing
C14_Witness ==
    /\ lastReport.query # 0
    /\ Len(TreeLinesSent(sent)) = 2
    /\ TreeLinesSent(sent)[1].line.Hops = 0
    /\ TreeLinesSent(sent)[2].line.Hops = 1
    /\ \E k \in DOMAIN sent : sent[k].kind = "Missing servers" /\ sent[k].count = 1

\* the step is a 364 being handled
IsLinks == ~IsLinksEnd /\ ~IsBeginQuery

\* the servers of the records added to the open snapshot
AddedServers == {added[i].entry.Server : i \in DOMAIN added}

\* the line shows a record that was added to the open snapshot
ShowsAdded(line) ==
    \E i \in DOMAIN added :
        /\ added[i].entry.Server = line.Server
        /\ added[i].entry.Hops = line.Hops
        /\ added[i].entry.Description = line.Description

-----------------------------------------------------------------------------
(* Properties of the loading functions (SpecLoad) *)

\* the bytes of rmap.txt that LoadMap read
RmapData == dataDir["rmap.txt"].data

\* LoadMap has read rmap.txt and returned a catalog
Loaded == result.op = "LoadMap" /\ dataDir["rmap.txt"].state \in {"ok", "failing"}

\* the positions of the line feeds of data
LineFeeds(data) == {i \in DOMAIN data : data[i] = 10}

\* the number of lines of data: one per line feed, and one more for text
\* after the last line feed
InputLineCount(data) ==
    Cardinality(LineFeeds(data))
    + (IF data # <<>> /\ data[Len(data)] # 10 THEN 1 ELSE 0)

\* the end of the k-th line of data: the position of its line feed, or one
\* past the end of data
LineEnd(data, k) ==
    IF k = 0 THEN 0
    ELSE IF k <= Cardinality(LineFeeds(data))
    THEN CHOOSE i \in LineFeeds(data) : Cardinality({j \in LineFeeds(data) : j <= i}) = k
    ELSE Len(data) + 1

\* the k-th line of data, without carriage returns
InputLine(data, k) ==
    SelectSeq(SubSeq(data, LineEnd(data, k - 1) + 1, LineEnd(data, k) - 1),
              LAMBDA b : b # 13)

\* the text of a line before its first ':', without surrounding white space
NamePart(line) == TrimSpace(SubSeq(line, 1, IndexByte(line, 58)))

\* the line is one that defines a server
IsEntryLine(line) ==
    /\ ~skipPatterns(line)
    /\ 58 \in Elements(line)
    /\ NamePart(line) # <<>>

\* the entry lines among the lines kept, in order
EntryLines == SelectSeq(result.map.Raw, IsEntryLine)

\* C16: Raw holds one element per line of the input, in input order, the
\* lines that define no server included; ServerList holds the names of the
\* lines that define a server, in the order of these lines, a name once
\* per line that defines it
C16_OrderPreserving ==
    Loaded =>
        /\ Len(result.map.Raw) = InputLineCount(RmapData)
        /\ \A k \in DOMAIN result.map.Raw : result.map.Raw[k] = InputLine(RmapData, k)
        /\ Len(result.map.ServerList) = Len(EntryLines)
        /\ \A j \in DOMAIN EntryLines : result.map.ServerList[j] = NamePart(EntryLines[j])

\* three lines were read, the first and the last defining two different
\* servers and the one between them none, the last without a line feed
C16_Witness ==
    /\ Loaded
    /\ Len(result.map.Raw) = 3
    /\ Cardinality(LineFeeds(RmapData)) = 2
    /\ Len(result.map.ServerList) = 2
    /\ IsEntryLine(result.map.Raw[1])
    /\ IsEntryLine(result.map.Raw[3])
    /\ result.map.ServerList[1] # result.map.ServerList[2]

\* the maximal runs of bytes of s that are not white space, as pairs of
\* their first and last position
Runs(s) ==
    {r \in (DOMAIN s) \X (DOMAIN s) :
        /\ r[1] <= r[2]
        /\ \A k \in r[1]..r[2] : s[k] \notin {9, 10, 11, 12, 13, 32}
        /\ r[1] = 1 \/ s[r[1] - 1] \in {9, 10, 11, 12, 13, 32}
        /\ r[2] = Len(s) \/ s[r[2] + 1] \in {9, 10, 11, 12, 13, 32}}

\* the white-space separated tokens of s, in their order in s
Tokens(s) ==
    [k \in 1..Cardinality(Runs(s)) |->
        LET r == CHOOSE r \in Runs(s) : Cardinality({q \in Runs(s) : q[1] < r[1]}) = k - 1
        IN  SubSeq(s, r[1], r[2])]

\* the text of a line after its first ':'
UplinkPart(line) == SubSeq(line, IndexByte(line, 58) + 2, Len(line))

\* the tokens of s that begin neither with '(' nor with '='
UplinkTokens(s) == SelectSeq(Tokens(s), LAMBDA h : h[1] # 40 /\ h[1] # 61)

\* line k is the last line that defines its server
IsLastDefinition(k) ==
    /\ IsEntryLine(result.map.Raw[k])
    /\ \A l \in DOMAIN result.map.Raw :
          (l > k /\ IsEntryLine(result.map.Raw[l]))
             => NamePart(result.map.Raw[l]) # NamePart(result.map.Raw[k])

\* C17: the uplink list stored for the name of an entry line is the
\* white-space separated tokens after the line's first ':', in their order,
\* without the tokens beginning with '(' or '='
C17_UplinksAreKeptTokens ==
    Loaded =>
        \A k \in DOMAIN result.map.Raw :
            IsLastDefinition(k) =>
                /\ NamePart(result.map.Raw[k]) \in DOMAIN result.map.Servers
                /\ result.map.Servers[NamePart(result.map.Raw[k])]
                      = UplinkTokens(UplinkPart(result.map.Raw[k]))

\* a line with four tokens, one beginning with '(' between two uplinks and
\* one beginning with '=' after them, was loaded and two uplinks are stored
C17_Witness ==
    /\ Loaded
    /\ \E k \in DOMAIN result.map.Raw :
          /\ IsLastDefinition(k)
          /\ Len(Tokens(UplinkPart(result.map.Raw[k]))) = 4
          /\ Tokens(UplinkPart(result.map.Raw[k]))[2][1] = 40
          /\ Tokens(UplinkPart(result.map.Raw[k]))[4][1] = 61
          /\ Len(result.map.Servers[NamePart(result.map.Raw[k])]) = 2

\* the lines kept that match a header, separator or blank pattern, that hold
\* no ':' or whose name part is empty
SkippedLines == {k \in DOMAIN result.map.Raw : ~IsEntryLine(result.map.Raw[k])}

\* C18: the lines that match a header, separator or blank pattern, that hold
\* no ':' or whose name part is empty contribute nothing: Servers and
\* ServerList are those of the input without these lines; each other line
\* contributes one element of ServerList and its name as a key of Servers;
\* and a file that was read to its end gives no error
C18_SkippedLinesContributeNothing ==
    Loaded =>
        /\ LoadLines(EmptyMap, EntryLines).Servers = result.map.Servers
        /\ LoadLines(EmptyMap, EntryLines).ServerList = result.map.ServerList
        /\ Len(result.map.ServerList) = Len(result.map.Raw) - Cardinality(SkippedLines)
        /\ DOMAIN result.map.Servers =
              {NamePart(result.map.Raw[k]) : k \in DOMAIN result.map.Raw \ SkippedLines}
        /\ dataDir["rmap.txt"].state = "ok" => ~result.err /\ ~result.nil

\* a file of three lines was read without error: a line that has a name and
\* a ':' but matches a pattern, a line with an empty name, and an entry
C18_Witness ==
    /\ Loaded
    /\ ~result.err
    /\ Len(result.map.Raw) = 3
    /\ Len(result.map.ServerList) = 1
    /\ \E k \in SkippedLines :
          /\ skipPatterns(result.map.Raw[k])
          /\ 58 \in Elements(result.map.Raw[k])
          /\ NamePart(result.map.Raw[k]) # <<>>
    /\ \E k \in SkippedLines :
          /\ ~skipPatterns(result.map.Raw[k])
          /\ 58 \in Elements(result.map.Raw[k])

\* the lines kept that define the server name
DefiningLines(name) ==
    {k \in DOMAIN result.map.Raw :
        IsEntryLine(result.map.Raw[k]) /\ NamePart(result.map.Raw[k]) = name}

\* the greatest element of a non-empty set of numbers
Last(S) == CHOOSE k \in S : \A l \in S : l <= k

\* a server name is defined by two lines
DefinedTwice == \E name \in DOMAIN result.map.Servers : Cardinality(DefiningLines(name)) > 1

\* C19: Servers maps every name to the uplink list of the last line that
\* defines it; the names in ServerList are the keys of Servers; ServerList
\* has one element per defining line, so it is at least as long as Servers
\* has keys, and as long exactly when no name is defined twice
C19_LastDefinitionWins ==
    Loaded =>
        /\ \A name \in DOMAIN result.map.Servers :
              /\ DefiningLines(name) # {}
              /\ result.map.Servers[name] =
                    UplinkTokens(UplinkPart(result.map.Raw[Last(DefiningLines(name))]))
        /\ Elements(result.map.ServerList) = DOMAIN result.map.Servers
        /\ \A name \in DOMAIN result.map.Servers :
              Cardinality({j \in DOMAIN result.map.ServerList : result.map.ServerList[j] = name})
                 = Cardinality(DefiningLines(name))
        /\ Len(result.map.ServerList) >= Cardinality(DOMAIN result.map.Servers)
        /\ (Len(result.map.ServerList) = Cardinality(DOMAIN result.map.Servers)) <=> ~DefinedTwice

\* a name was defined, then another name, then the first name again with
\* other uplinks: three elements in ServerList, two keys in Servers
C19_Witness ==
    /\ Loaded
    /\ Len(result.map.ServerList) = 3
    /\ Cardinality(DOMAIN result.map.Servers) = 2
    /\ result.map.ServerList[1] = result.map.ServerList[3]
    /\ UplinkTokens(UplinkPart(result.map.Raw[1])) # UplinkTokens(UplinkPart(result.map.Raw[3]))

\* the file the operation applied has read
FileRead ==
    dataDir[CASE result.op = "LoadMap" -> "rmap.txt"
              [] result.op = "LoadLogs" -> "logs.txt"
              [] result.op = "LoadStats" -> "stats.txt"
              [] result.op = "LoadMOTD" -> "motd.txt"]

\* the operation applied returned the empty value of its type
ReturnedEmpty ==
    /\ ~result.nil
    /\ result.map = Map(<<>>, <<>>, <<>>)
    /\ result.strings = <<>>
    /\ result.motd = MOTD(<<>>, <<>>)

\* C20: each of LoadMap, LoadLogs, LoadStats and LoadMOTD returns the empty
\* value and no error when its file is missing, an error when the file
\* cannot be opened or reading it fails, and no error otherwise
C20_MissingFileIsNoError ==
    result.op \in {"LoadMap", "LoadLogs", "LoadStats", "LoadMOTD"} =>
        /\ FileRead.state = "missing" => (~result.err /\ ReturnedEmpty)
        /\ FileRead.state \in {"denied", "failing"} => result.err
        /\ FileRead.state = "ok" => ~result.err

\* LoadMOTD was applied to a missing motd.txt, next to a logs.txt that
\* cannot be opened, and returned the empty MOTD and no error
C20_Witness ==
    /\ result.op = "LoadMOTD"
    /\ dataDir["motd.txt"].state = "missing"
    /\ dataDir["logs.txt"].state = "denied"
    /\ ~result.err
    /\ ReturnedEmpty

-----------------------------------------------------------------------------
(* Properties of the catalog reload (SpecReload) *)

\* the catalogs a complete load of rmap.txt gives, and the empty catalog
\* NewClient falls back to
CompleteCatalogs ==
    {EmptyMap} \cup {LoadMap(file).map : file \in {f \in ReloadFiles : ~LoadMap(f).err}}

\* what reader r has read so far is the beginning of one complete catalog,
\* the one installed when it read c.routingMap, and all of it once it is done
ReadsOneCatalog(r) ==
    readers[r].pc # "idle" =>
        /\ readers[r].snap \in CompleteCatalogs
        /\ catalogs.heap[readers[r].obj].published
        /\ readers[r].seen =
              SubSeq(FieldRead(readers[r].kind, readers[r].snap), 1, Len(readers[r].seen))
        /\ readers[r].pc = "done" =>
              /\ readers[r].seen = FieldRead(readers[r].kind, readers[r].snap)
              /\ readers[r].kind = "onLinksEnd" =>
                    readers[r].total = Len(readers[r].snap.ServerList)

\* the object c.routingMap points at was returned by LoadMap and holds all
\* of its source
InstalledIsComplete ==
    LET object == catalogs.heap[catalogs.installed] IN
    /\ object.done
    /\ object.published
    /\ object.map = LoadLines(EmptyMap, object.source)
    /\ routingMap = object.map

\* C15: whatever the interleaving of reloads and readers, each reader reads
\* one complete catalog, the one installed when it read c.routingMap, from
\* its first element to its last; c.routingMap never points at a catalog
\* that is still being built; and no step changes a catalog that
\* c.routingMap points at or has pointed at
C15_ReadersSeeOneCompleteCatalog ==
    /\ [](\A r \in ReaderIds : ReadsOneCatalog(r))
    /\ []InstalledIsComplete
    /\ [][\A a \in DOMAIN catalogs.heap :
             catalogs.heap[a].published => catalogs'.heap[a].map = catalogs.heap[a].map]_vars

\* one reader is in the middle of the catalog it started with while a
\* reload has installed another one, which the other reader has read to
\* its end
C15_Witness ==
    \E r1, r2 \in ReaderIds :
        /\ readers[r1].pc = "reading"
        /\ Len(readers[r1].seen) >= 1
        /\ Len(readers[r1].seen) < readers[r1].n
        /\ readers[r1].obj # catalogs.installed
        /\ readers[r2].pc = "done"
        /\ readers[r2].obj = catalogs.installed
        /\ readers[r2].seen # <<>>
        /\ readers[r2].snap # readers[r1].snap


\* the step is a reloadMap that returns because LoadMap returned an error:
\* rmap.txt could not be opened, or reading it failed
FailsAtOpen == loader.pc = "idle" /\ loader'.pc = "idle" /\ loader'.calls = loader.calls + 1
FailsAtEnd == loader.pc = "scan" /\ loader'.pc = "idle"

\* handler r reads c.routingMap in the step
TakesCatalog(r) == readers[r].pc \in {"idle", "done"} /\ readers'[r].pc \notin {"idle", "done"}

\* C34: a reloadMap whose LoadMap fails leaves the installed catalog as it
\* was, at the step it returns and at every step of the load before; and
\* every handler that reads c.routingMap, for a reconciliation (onLinksEnd)
\* or a lookup (cmdMap, cmdUplinks), takes the catalog installed at that
\* moment and reads that one to its end.
C34_FailedLoadKeepsCatalog ==
    /\ [][(FailsAtOpen \/ FailsAtEnd \/ loader.err) =>
             /\ routingMap' = routingMap
             /\ catalogs'.installed = catalogs.installed
             /\ Installed(catalogs') = Installed(catalogs)]_vars
    /\ [][\A r \in ReaderIds :
             TakesCatalog(r) => /\ readers'[r].snap = routingMap
                                /\ readers'[r].obj = catalogs.installed]_vars
    /\ [](\A r \in ReaderIds :
             readers[r].pc = "done" =>
                 readers[r].seen = FieldRead(readers[r].kind, readers[r].snap))

\* rmap.txt was loaded once more and reading it failed after a line had been
\* read: the catalog built at start is still installed, differs from the one
\* the failed load had built so far, and a reconciliation has read it to its end
C34_Witness ==
    /\ loader.pc = "idle"
    /\ loader.calls >= 1
    /\ Len(catalogs.heap) >= 2
    /\ catalogs.installed = 1
    /\ catalogs.heap[2].done
    /\ ~catalogs.heap[2].published
    /\ catalogs.heap[2].map # routingMap
    /\ routingMap.ServerList # <<>>
    /\ \E r \in ReaderIds :
           /\ readers[r].pc = "done"
           /\ readers[r].kind = "onLinksEnd"
           /\ readers[r].snap = routingMap
           /\ readers[r].seen = routingMap.ServerList

-----------------------------------------------------------------------------
(* Properties of the catalog lookups (SpecLookup) *)

\* name starts with term when letter case is ignored
StartsWithIgnoringCase(name, term) ==
    /\ Len(name) >= Len(term)
    /\ \A i \in DOMAIN term : Lowered(name)[i] = Lowered(term)[i]

\* the catalog names that start with the term looked up, case ignored
PrefixMatches ==
    {name \in DOMAIN routingMap.Servers : StartsWithIgnoringCase(name, result.term)}

\* C21: GetUplinks(term) returns the uplinks of the entry named exactly term
\* when there is one, whatever other names start with term; otherwise the
\* uplinks of some entry whose name starts with term, case ignored; and nothing
\* (a nil list) when no name matches either way.
C21_ExactThenPrefixThenNothing ==
    result.op = "GetUplinks" =>
        IF result.term \in DOMAIN routingMap.Servers
        THEN result.strings = routingMap.Servers[result.term]
        ELSE IF PrefixMatches # {}
             THEN \E name \in PrefixMatches : result.strings = routingMap.Servers[name]
             ELSE result.nil /\ result.strings = <<>>

\* "a" was looked up in a catalog that lists "ab" before "a", and the uplinks
\* of "a" came back
C21_Witness ==
    /\ result.op = "GetUplinks"
    /\ result.term = <<97>>
    /\ routingMap.ServerList = <<<<97, 98>>, <<97>>>>
    /\ result.strings = <<<<104, 49>>>>

\* "A" names no entry and some entry starting with it, case ignored, answered
C21_WitnessPrefix ==
    /\ result.op = "GetUplinks"
    /\ result.term = <<65>>
    /\ result.term \notin DOMAIN routingMap.Servers
    /\ result.strings = <<<<104, 51>>>>

\* "c" matches nothing and nothing came back
C21_WitnessNothing ==
    /\ result.op = "GetUplinks"
    /\ result.term = <<99>>
    /\ routingMap.ServerList # <<>>
    /\ result.nil


\* the positions of ServerList whose name starts with the prefix, case ignored
MatchingPositions ==
    {i \in DOMAIN routingMap.ServerList :
        StartsWithIgnoringCase(routingMap.ServerList[i], result.term)}

\* C22: FindServer(prefix) returns exactly the elements of ServerList whose name
\* starts with prefix, case ignored: one result per matching position (a name
\* listed twice is returned twice), in ServerList order, and nothing else.
C22_AllMatchesInListOrder ==
    result.op = "FindServer" =>
        /\ Len(result.strings) = Cardinality(MatchingPositions)
        /\ \E pos \in [DOMAIN result.strings -> MatchingPositions] :
               /\ \A i, j \in DOMAIN pos : i < j => pos[i] < pos[j]
               /\ \A i \in DOMAIN pos : result.strings[i] = routingMap.ServerList[pos[i]]

\* "a" was looked for in "Ab", "b", "Ab": both listings of "Ab" came back
C22_Witness ==
    /\ result.op = "FindServer"
    /\ result.term = <<97>>
    /\ routingMap.ServerList = <<<<65, 98>>, <<98>>, <<65, 98>>>>
    /\ result.strings = <<<<65, 98>>, <<65, 98>>>>


-----------------------------------------------------------------------------
(* Properties of the renderer (SpecRender) *)

\* the record shown by the i-th line Build returned
ShownEntry(i) == linksTree.entries[result.lines[i].Server]

\* some entry after position i of the ordered sequence has hop count h
LaterAtHops(i, h) ==
    \E j \in DOMAIN result.lines : j > i /\ ShownEntry(j).Hops = h

\* C23: a line for a node with hop count h >= 1 is h-1 four-character segments,
\* the branch marker, then "<server> (<hops>) <description>"; the segment for
\* level L (1 <= L <= h-1) is three spaces and a bar exactly when some entry
\* later in the ordered sequence has hop count L+1, and four spaces otherwise.
\* The line of the root, which formatLine recognises by hop count 0, has no
\* prefix and no branch marker.
C23_PrefixSegments ==
    BuiltTree =>
        \A i \in DOMAIN result.lines :
            LET line == result.lines[i]
                h == ShownEntry(i).Hops IN
            /\ line.text = ""
            /\ line.Server = ShownEntry(i).Server
            /\ line.Hops = h
            /\ line.Description = ShownEntry(i).Description
            /\ h = 0 => line.prefix = <<>> /\ line.branch = ""
            /\ h >= 1 =>
                  /\ line.branch = "|_ "
                  /\ Len(line.prefix) = h - 1
                  /\ \A L \in 1..(h - 1) :
                         line.prefix[L] = IF LaterAtHops(i, L + 1) THEN "   |" ELSE "    "

\* a, a's child b, b's child c reporting 3 hops, then d reporting 2 hops: the
\* line of c has a bar at level 1 and blanks at level 2
C23_Witness ==
    /\ BuiltTree
    /\ BuiltServers = <<<<97>>, <<98>>, <<99>>, <<100>>>>
    /\ result.lines[3].Hops = 3
    /\ result.lines[3].prefix = <<"   |", "    ">>
    /\ result.lines[4].Hops = 2


-----------------------------------------------------------------------------
(* Build and CompareToMap as functions of their inputs (SpecPure) *)

\* the snapshots holding the records of t, arrived in any order
SameRecords(t) == {[t EXCEPT !.order = o] : o \in RangeOrders(Keys(t))}

\* everything Build can return for the records of t
BuildOutcomes(t) ==
    {Build(t2, root) : t2 \in SameRecords(t), root \in RootChoices(t)}

\* everything CompareToMap can return for the records of t and the catalog rmap
CompareOutcomes(t, rmap) ==
    {LET cmp == CompareToMap(t2, rmap, iter) IN
         [total |-> cmp.total, linked |-> cmp.linked, missing |-> Elements(cmp.missing)] :
     t2 \in SameRecords(t), iter \in RangeOrders(Keys(t))}

\* what the call that ran returned
BuildReturned == [crash |-> result.crash, lines |-> result.lines]
CompareReturned ==
    [total |-> result.total, linked |-> result.linked, missing |-> Elements(result.missing)]

AtMostOneRoot == Cardinality({s \in Keys(linksTree) : linksTree.entries[s].Hops = 0}) <= 1

\* C24 as stated: whatever the arrival order of the records and however many
\* of them have hop count 0, Build has one possible outcome, and so has
\* CompareToMap with the same catalog.
C24_PureWhateverTheRoots ==
    /\ result.op = "Build" => BuildOutcomes(linksTree) = {BuildReturned}
    /\ result.op = "CompareToMap" => CompareOutcomes(linksTree, routingMap) = {CompareReturned}

\* C24, amended: CompareToMap has one possible outcome for the same records
\* and catalog, and Build has one possible outcome for the same records when
\* at most one of them has hop count 0.
C24_PureWithOneRoot ==
    /\ (result.op = "Build" /\ AtMostOneRoot) => BuildOutcomes(linksTree) = {BuildReturned}
    /\ result.op = "CompareToMap" => CompareOutcomes(linksTree, routingMap) = {CompareReturned}

\* Build ran on three records with one root and rendered all three
C24_Witness ==
    /\ result.op = "Build"
    /\ AtMostOneRoot
    /\ Cardinality(Keys(linksTree)) = 3
    /\ Len(result.lines) = 3

\* CompareToMap ran on three records and a catalog of two
C24_WitnessCompare ==
    /\ result.op = "CompareToMap"
    /\ Cardinality(Keys(linksTree)) = 3
    /\ result.total = 2
    /\ result.missing # <<>>


-----------------------------------------------------------------------------
(* Properties of the flat-file store (SpecStore) *)

\* C25: the log list never has more than maxEntries (500) entries, and an
\* AddLog call leaves the entry it was given at index 0, followed by the
\* entries the list had, in their order, without the oldest (last) one when
\* the list was full.
C25_NewestFirstCapped ==
    /\ [](Len(logs) <= maxEntries)
    /\ [][result'.op = "AddLog" =>
            /\ logs'[1] = result'.term
            /\ Len(logs') = (IF Len(logs) < maxEntries THEN Len(logs) + 1 ELSE maxEntries)
            /\ Tail(logs') = SubSeq(logs, 1, Len(logs') - 1)]_vars

\* two AddLog calls on a full list: still full, the two oldest entries gone
C25_Witness ==
    /\ result.op = "AddLog"
    /\ result.calls = 2
    /\ Len(logs) = maxEntries
    /\ logs[1] = result.term
    /\ logs[maxEntries] = LongEntry(maxEntries - 2)


\* a log entry that logs.txt holds as one line: not empty, without a line
\* feed, and not ending in a carriage return
Storable(entry) ==
    /\ entry # <<>>
    /\ \A i \in DOMAIN entry : entry[i] # 10
    /\ entry[Len(entry)] # 13

\* the step is LoadLogs reading the file SaveLogs has just written
LogsReadBack == result.op = "SaveLogs" /\ ~result.err /\ result'.op = "LoadLogs"

\* C26 as stated: for every list of log entries, SaveLogs writes the entries
\* oldest first, one per line, and LoadLogs then returns the list that was
\* saved: same length, same entries, newest first.
C26_LogsRoundTrip ==
    [][LogsReadBack =>
          /\ dataDir["logs.txt"].data = Join(reverse(logs), TRUE)
          /\ ~result'.err
          /\ result'.strings = logs]_vars

\* C26, amended: the round trip returns the saved list when every entry is
\* storable as a line; the file holds the entries oldest first in every case.
C26_StorableLogsRoundTrip ==
    [][LogsReadBack =>
          /\ dataDir["logs.txt"].data = Join(reverse(logs), TRUE)
          /\ ~result'.err
          /\ (\A i \in DOMAIN logs : Storable(logs[i])) => result'.strings = logs]_vars

\* "n" was added to "x", "y z"; the three were saved and read back
C26_Witness ==
    /\ result.op = "LoadLogs"
    /\ logs = <<<<110>>, <<120>>, <<121, 32, 122>>>>
    /\ result.strings = logs
    /\ dataDir["logs.txt"].data = <<121, 32, 122, 10, 120, 10, 110, 10>>

\* a list with an empty entry was saved and came back shorter
C26_WitnessLost ==
    /\ result.op = "LoadLogs"
    /\ logs = <<<<120>>, <<>>>>
    /\ result.strings = <<<<120>>>>


\* s contains "%%"
HasPercents(s) == \E i \in 1..(Len(s) - 1) : s[i] = 37 /\ s[i + 1] = 37

\* the white space strings.TrimSpace removes
IsSpaceByte(b) == b \in {9, 10, 11, 12, 13, 32}

\* a MOTD that motd.txt gives back: the setter does not start with white
\* space, the first "%%" of the line is the separator (the setter neither
\* contains "%%" nor ends in '%'), and the message does not end with white space
StorableMOTD(m) ==
    /\ m.Setter # <<>> => ~IsSpaceByte(m.Setter[1])
    /\ ~HasPercents(m.Setter \o <<37>>)
    /\ m.Message # <<>> => ~IsSpaceByte(m.Message[Len(m.Message)])

\* the step is LoadMOTD reading the file SaveMOTD has just written
MOTDReadBack == result.op = "SaveMOTD" /\ ~result.err /\ result'.op = "LoadMOTD"

\* C27 as stated: for every MOTD, SaveMOTD writes "<setter>%%<message>" and a
\* newline, and LoadMOTD then returns the Setter and the Message saved.
C27_MOTDRoundTrip ==
    [][MOTDReadBack =>
          /\ dataDir["motd.txt"].data = motd.Setter \o <<37, 37>> \o motd.Message \o <<10>>
          /\ ~result'.err
          /\ result'.motd = motd]_vars

\* C27, amended: the round trip returns the saved Setter and Message when the
\* MOTD is storable; the file has the stated form in every case.
C27_StorableMOTDRoundTrip ==
    [][MOTDReadBack =>
          /\ dataDir["motd.txt"].data = motd.Setter \o <<37, 37>> \o motd.Message \o <<10>>
          /\ ~result'.err
          /\ StorableMOTD(motd) <=> result'.motd = motd]_vars

\* setter "s" and message "a%%b" were saved and read back
C27_Witness ==
    /\ result.op = "LoadMOTD"
    /\ motd = MOTD(<<115>>, <<97, 37, 37, 98>>)
    /\ dataDir["motd.txt"].data = <<115, 37, 37, 97, 37, 37, 98, 10>>
    /\ result.motd = motd

\* setter "s%" and message "m" came back as setter "s" and message "%m"
C27_WitnessShifted ==
    /\ result.op = "LoadMOTD"
    /\ motd = MOTD(<<115, 37>>, <<109>>)
    /\ result.motd = MOTD(<<115>>, <<37, 109>>)


-----------------------------------------------------------------------------
(* Orphaned and cyclic hub references (SpecOrphan) *)

\* the records, other than root, whose hub is not a record of the snapshot
Orphans(root) ==
    {s \in Keys(linksTree) \ {root} : linksTree.entries[s].Hub \notin Keys(linksTree)}

\* GetLinkedServers and CompareToMap count every record, orphans included
OrphansCounted ==
    /\ result.op = "GetLinkedServers" =>
          /\ Len(result.names) = Cardinality(Keys(linksTree))
          /\ \A o \in Orphans(<<>>) : Stripped(o) \in Elements(result.names)
    /\ result.op = "CompareToMap" =>
          /\ result.linked = Cardinality(Keys(linksTree))
          /\ \A o \in Orphans(<<>>) : Lowered(Stripped(o)) \notin Elements(result.missing)

\* C28 as stated: an orphan other than the root is on none of Build's lines,
\* and neither is any record below it; GetLinkedServers and CompareToMap still
\* count the orphans.
C28_OrphansAndAllBelowHidden ==
    /\ BuiltTree =>
          \A o \in Orphans(result.root) :
              \A s \in {o} \cup Descendants(linksTree, o) : s \notin Elements(BuiltServers)
    /\ OrphansCounted

\* C28, amended: an orphan other than the root is on none of Build's lines,
\* and a record below it is on a line only when it is the root or lies below
\* the root (the root's own hub chain then leads to the orphan);
\* GetLinkedServers and CompareToMap still count the orphans.
C28_OrphansHiddenUnlessAboveRoot ==
    /\ BuiltTree =>
          \A o \in Orphans(result.root) :
              /\ o \notin Elements(BuiltServers)
              /\ \A s \in Descendants(linksTree, o) :
                     s \in Elements(BuiltServers) =>
                         s \in {result.root} \cup Descendants(linksTree, result.root)
              /\ result.root \notin Descendants(linksTree, o) =>
                     \A s \in Descendants(linksTree, o) : s \notin Elements(BuiltServers)
    /\ OrphansCounted

\* a root with one child was rendered, and an orphan with a record below it
\* was not
C28_Witness ==
    /\ BuiltTree
    /\ Len(result.lines) = 2
    /\ \E o \in Orphans(result.root) :
           /\ Descendants(linksTree, o) # {}
           /\ result.root \notin Descendants(linksTree, o)

\* CompareToMap counted four records, an orphan among them
C28_WitnessCounted ==
    /\ result.op = "CompareToMap"
    /\ result.linked = 4
    /\ Orphans(<<>>) # {}


\* s lies on a cycle of two or more records: following hub pointers from its
\* hub, which is another record, leads back to s
OnCycle(t, s) ==
    /\ s \in Keys(t)
    /\ t.entries[s].Hub # s
    /\ HubChainReaches(t, t.entries[s].Hub, s, Cardinality(Keys(t)))

\* Build found a root and walked from it
BuiltFromRoot == result.op = "Build" /\ result.root # <<>>

\* C29 as stated: for every snapshot with a root and a cycle of two or more
\* records among its hub pointers, Build does not return.
C29_AnyCycleDiverges ==
    (BuiltFromRoot /\ \E s \in Keys(linksTree) : OnCycle(linksTree, s)) => result.crash

\* C29, amended: Build does not return exactly when the root itself lies on a
\* cycle of two or more records; a cycle the root is not on is never entered,
\* Build returns, and no record of that cycle is on a line.
C29_RootCycleDiverges ==
    BuiltFromRoot =>
        /\ result.crash <=> OnCycle(linksTree, result.root)
        /\ ~result.crash =>
              \A s \in Keys(linksTree) :
                  OnCycle(linksTree, s) => s \notin Elements(BuiltServers)

\* the root a names b as its hub and b names a: Build did not return
C29_Witness ==
    /\ BuiltFromRoot
    /\ result.crash
    /\ result.root = <<97>>
    /\ linksTree.entries[<<97>>].Hub = <<98>>
    /\ linksTree.entries[<<98>>].Hub = <<97>>

\* b and c name each other beside the root a and its child d: Build returned
\* the lines of a and d
C29_WitnessBeside ==
    /\ BuiltFromRoot
    /\ ~result.crash
    /\ OnCycle(linksTree, <<98>>)
    /\ BuiltServers = <<<<97>>, <<100>>>>


-----------------------------------------------------------------------------
(* Properties of the operator gate (SpecGate) *)

\* the handleCommand calls among the calls q
HandleCalls(q) == SelectSeq(q, LAMBDA call : call.fn = "handleCommand")

\* the step is a PRIVMSG, a 313, a 318
IsPrivMsg == received' = received + 1
IsWhoisOper == whois # <<>> /\ whois' # <<>> /\ ~whois[1].oper /\ whois'[1].oper
IsWhoisEnd == Len(whois') < Len(whois)

\* the step passes a command to handleCommand
Executes == HandleCalls(invoked') # HandleCalls(invoked)

\* the command handleCommand is called with in the step
Executed == HandleCalls(invoked')[Len(HandleCalls(invoked'))]

\* the hostmasks of the IRC operators
OperHostmasks == {user.hostmask : user \in {u \in GateUsers : u.oper}}

Count(q, Test(_)) == Len(SelectSeq(q, Test))

\* how many times the operator u has sent the text t, and how many times
\* handleCommand was called with it
TimesSent(u, t) ==
    Count(arrived, LAMBDA m : m.hostmask = u.hostmask /\ m.message = t)
TimesExecuted(u, t) ==
    Count(invoked, LAMBDA call : call = Call("handleCommand", u.nick, u.hostmask, <<t>>))

\* C32: every private message of an IRC operator is executed exactly once:
\* handleCommand is never called more often with a text than the operator
\* sent it, and every message an operator sent, cached or not, is eventually
\* passed to handleCommand.
C32_EveryMessageExecutedOnce ==
    /\ [](\A u \in GateUsers : \A t \in MsgTexts : TimesExecuted(u, t) <= TimesSent(u, t))
    /\ \A u \in {v \in GateUsers : v.oper} : \A t \in MsgTexts : \A k \in 1..MaxMsgs :
           [](TimesSent(u, t) >= k => <>(TimesExecuted(u, t) >= k))

-----------------------------------------------------------------------------
(* Properties of the admin commands (SpecAdmin) *)

\* the step handles a private message of an operator
HandlesMessage == received' = received + 1 /\ invoked'[1].fn = "handleCommand"

\* the nick the message came from, its text, and the fields of the text
Requester == invoked'[1].nick
RequestText == invoked'[1].text[2]
RequestFields == Fields(RequestText)

\* the step handles a 601 for nick
HandlesLogoff(nick) == invoked' # <<>> /\ invoked'[1] = Call("onWatchLogout", nick, "", <<"", <<>>>>)

\* the message is a login with the right password
IsLogin ==
    /\ Len(RequestFields) >= 2
    /\ ToLower(RequestFields[1]) \in {<<33, 108, 111, 103, 105, 110>>, <<33, 115, 117>>}     \* "!login", "!su"
    /\ RequestFields[2] = AdminPass

\* the message is a logout
IsLogout == RequestFields # <<>> /\ ToLower(RequestFields[1]) = <<33, 108, 111, 103, 111, 117, 116>>   \* "!logout"

\* the message asks for an admin-only action: !reload, !nick, !restart,
\* !shutdown, or a text starting with "!set motd"
IsAdminRequest ==
    /\ RequestFields # <<>>
    /\ \/ ToLower(RequestFields[1]) \in {<<33, 114, 101, 108, 111, 97, 100>>, <<33, 110, 105, 99, 107>>, <<33, 114, 101, 115, 116, 97, 114, 116>>, <<33, 115, 104, 117, 116, 100, 111, 119, 110>>}
       \/ /\ ToLower(RequestFields[1]) = <<33, 115, 101, 116>>
          /\ HasPrefix(ToLower(TrimSpace(RequestText)), <<33, 115, 101, 116, 32, 109, 111, 116, 100>>)

\* the calls by which an admin-only action takes effect
EffectCalls == {"reloadMap", "SetNick", "OnRestart", "OnShutdown"}

\* the step reloads the catalog, changes the MOTD or motd.txt, changes the
\* nick, restarts or shuts down
TakesEffect ==
    \/ routingMap' # routingMap
    \/ motd' # motd
    \/ dataDir' # dataDir
    \/ \E i \in DOMAIN invoked' : invoked'[i].fn \in EffectCalls

\* the lines by which the admin commands refuse
Refusals ==
    {"Sorry, only my admins can change the motd",
     "Sorry, only my admins can issue that command",
     "Sorry, only my admins can change my nick",
     "Sorry, only my admins can restart me",
     "Sorry, only my admins can shut me down"}

\* the step answers the requester with a refusal and changes nothing but
\* the stat log
Refused ==
    /\ Len(sent') = 1 /\ sent'[1].to = Requester /\ sent'[1].kind \in Refusals
    /\ ~TakesEffect
    /\ stats' = AddStat(stats)
    /\ UNCHANGED <<linksTree, linksTarget, linksSummary, routingMap, motd, logs, opers,
                   pendingWhois, whois, admins, pendingLinks, queryNo, openQuery, added,
                   lastCall, reports, lastReport, crashed, dataDir, catalogs, loader,
                   readers, result>>

\* C31: an admin-only action (catalog reload, MOTD change, nick change,
\* restart, shutdown) takes effect only in a step that handles a message of
\* a nick that is in the admin set; a nick enters the admin set only by its
\* own login with the right password, and is out of it after its logout
\* and after a 601 for it; a request for an admin-only action from a nick
\* outside the admin set is refused and changes nothing but the stat log.
C31_AdminOnly ==
    [][/\ TakesEffect => (HandlesMessage /\ Requester \in admins)
       /\ \A nick \in Nicks \cup {cfgNick} :
            /\ (nick \notin admins /\ nick \in admins')
                   => (HandlesMessage /\ Requester = nick /\ IsLogin)
            /\ (HandlesMessage /\ Requester = nick /\ IsLogout) => nick \notin admins'
            /\ HandlesLogoff(nick) => nick \notin admins'
       /\ (HandlesMessage /\ ~crashed' /\ IsAdminRequest /\ Requester \notin admins) => Refused
      ]_vars

\* alice has logged in and changed the MOTD, and bob, who has not logged
\* in, has just been refused a reload
C31_Witness ==
    /\ "alice" \in admins
    /\ "bob" \notin admins
    /\ motd.Message = <<109>>      \* "m"
    /\ sent = <<Line("bob", "Sorry, only my admins can issue that command")>>


\* the message has a first word, and the switch of handleCommand has no case
\* for it
IsUnknownCommand ==
    /\ RequestFields # <<>>
    /\ \A c \in Cases : c[1] # ToLower(RequestFields[1])

\* C33: handleCommand returns normally for every message text, the empty
\* and the white-space-only ones included, and a message whose first word is
\* no known command changes no field of the client, sends nothing and calls
\* nothing.
C33_NeverFailsUnknownIgnored ==
    /\ [](~crashed)
    /\ [][(HandlesMessage /\ IsUnknownCommand) =>
            /\ sent' = <<>>
            /\ Len(invoked') = 1
            /\ UNCHANGED <<linksTree, linksTarget, linksSummary, routingMap, motd, stats, logs,
                           opers, pendingWhois, whois, arrived, admins, pendingLinks, queryNo,
                           openQuery, added, lastCall, reports, lastReport, crashed, dataDir,
                           catalogs, loader, readers, result>>]_vars

====
